---------------------------- MODULE Spec2Model ----------------------------
(***************************************************************************)
(* A model of buildah's commit path: the dual OCI/Docker configuration of  *)
(* a Builder (config.go) and the assembly of an image source from a        *)
(* working container (image.go: makeContainerImageRef, NewImageSource,     *)
(* GetBlob, Close).                                                        *)
(*                                                                         *)
(* Strings that the code takes apart (environment entries, values that     *)
(* are shell-expanded) are sequences of one-character strings; every other *)
(* string is a TLA+ string.  Byte streams are records that say what the    *)
(* bytes are made of; a digest is the record of the bytes it was computed  *)
(* from, so two digests are equal exactly when the bytes are.              *)
(***************************************************************************)
EXTENDS Integers, Sequences, FiniteSets, TLC

VARIABLES
    \* ---- the Builder (config.go) ----
    OCIv1,          \* b.OCIv1: the OCI configuration document
    Docker,         \* b.Docker: the Docker configuration document
    calls,          \* number of setter calls made so far (bounded)
    \* ---- one Commit (image.go) ----
    in,             \* CommitOptions, the Builder's commit-related fields, the store
    rootfs,         \* extractRootfs: the goroutine, the pipe, the channel, the reader
    pc,             \* where the commit is: start, ref, loop, done, failed, closed
    ref,            \* the containerImageRef built by makeContainerImageRef
    layers,         \* NewImageSource: the planned layer list
    parentLayerIDs, \* NewImageSource: ids reached by the parent walk
    apiLayerIDs,    \* NewImageSource: ids of the API-supplied layers
    idx,            \* NewImageSource: position of the layer loop in layers
    omanifest,      \* omanifest.Layers
    dmanifest,      \* dmanifest.Layers
    oimage,         \* oimage: RootFS.DiffIDs, History, Created
    dimage,         \* dimage: RootFS.DiffIDs, History, Created
    blobLayers,     \* blobLayers: digest -> storage layer, for reused parents
    staging,        \* the temporary blob directory and its files
    extraDiff,      \* extraImageContentDiff / extraImageContentDiffDigest
    src,            \* the containerImageSource that was returned
    err,            \* the error that was returned ("" when none)
    io,             \* what the commit has done to the outside world
    clock,          \* what time.Now() returns
    prev,           \* the bytes emitted by an earlier commit of the same inputs
    blob            \* the last GetBlob call: the request and what it returned

cfgVars == <<OCIv1, Docker, calls>>
commitVars == <<in, rootfs, pc, ref, layers, parentLayerIDs, apiLayerIDs, idx, omanifest,
                dmanifest, oimage, dimage, blobLayers, staging, extraDiff, src,
                err, io, clock, prev, blob>>
vars == <<OCIv1, Docker, calls, in, rootfs, pc, ref, layers, parentLayerIDs, apiLayerIDs,
          idx, omanifest, dmanifest, oimage, dimage, blobLayers, staging,
          extraDiff, src, err, io, clock, prev, blob>>

-----------------------------------------------------------------------------
(* Bounds of the model.                                                    *)

\* setter calls made on one Builder
MaxCalls == 3
\* parent layers below the container's layer
MaxParents == 2
\* entries of CommitOptions.ExtraImageContent
MaxExtra == 2

-----------------------------------------------------------------------------
(* Sequences and strings.                                                  *)

Range(s) == {s[i] : i \in 1..Len(s)}

\* strings.HasPrefix
HasPrefix(s, p) == Len(p) <= Len(s) /\ SubSeq(s, 1, Len(p)) = p

\* the entries of an environment list that do not start with k=
WithoutKey(list, k) ==
    LET F[i \in 0..Len(list)] ==
            IF i = 0 THEN <<>>
            ELSE IF ~HasPrefix(list[i], k \o <<"=">>) THEN Append(F[i-1], list[i])
                 ELSE F[i-1]
    IN  F[Len(list)]

\* the position of the first "=" of s, or 0
FirstEq(s) ==
    IF \E i \in 1..Len(s) : s[i] = "="
    THEN CHOOSE i \in 1..Len(s) : s[i] = "=" /\ \A j \in 1..(i-1) : s[j] # "="
    ELSE 0

\* os.Expand's isShellSpecialVar, on the characters the model uses
IsShellSpecialVar(c) == c \in {"$", "*", "#", "@", "!", "?", "-", "0", "1"}

\* os.Expand's isAlphaNum, on the characters the model uses
IsAlphaNum(c) == c \in {"A", "B", "x", "_", "0", "1"}

\* os.Expand's getShellName for a text that does not start with a brace:
\* the name that follows a dollar sign and the number of characters it takes
GetShellName(t) ==
    IF IsShellSpecialVar(t[1]) THEN [name |-> <<t[1]>>, w |-> 1]
    ELSE LET n == CHOOSE k \in 0..Len(t) :
                     /\ \A j \in 1..k : IsAlphaNum(t[j])
                     /\ (k < Len(t) => ~IsAlphaNum(t[k+1]))
         IN  [name |-> SubSeq(t, 1, n), w |-> n]

\* getenv of SetEnv: the value of the first entry "name=value" of the list,
\* the name itself when there is none
Getenv(list, name) ==
    LET hit(i) == FirstEq(list[i]) > 0 /\ SubSeq(list[i], 1, FirstEq(list[i]) - 1) = name
    IN  IF \E i \in 1..Len(list) : hit(i)
        THEN LET i == CHOOSE k \in 1..Len(list) : hit(k) /\ \A j \in 1..(k-1) : ~hit(j)
             IN  SubSeq(list[i], FirstEq(list[i]) + 1, Len(list[i]))
        ELSE name

\* os.Expand(s, getenv) from position j on
RECURSIVE ExpandFrom(_, _, _)
ExpandFrom(s, j, list) ==
    IF j > Len(s) THEN <<>>
    ELSE IF s[j] = "$" /\ j + 1 <= Len(s)
         THEN LET g == GetShellName(SubSeq(s, j + 1, Len(s)))
              IN  IF g.name = <<>>
                  THEN <<"$">> \o ExpandFrom(s, j + 1, list)
                  ELSE Getenv(list, g.name) \o ExpandFrom(s, j + 1 + g.w, list)
         ELSE <<s[j]>> \o ExpandFrom(s, j + 1, list)

Expand(s, list) == ExpandFrom(s, 1, list)


-----------------------------------------------------------------------------
(* config.go: the Builder's two configuration documents.                   *)
(* fixupConfig leaves b.Docker.Config pointing at b.Docker.ContainerConfig,*)
(* so what the setters write through b.Docker.Config is written to         *)
(* Docker.ContainerConfig.  A Go map is a record of its nil-ness and its   *)
(* entries.                                                                *)

\* values the setters are called with
Words == {"x"}
\* keys and values SetEnv and UnsetEnv are called with
EnvKeys == {<<"A">>, <<"B">>}
EnvValues == {<<"x">>, <<"$", "A">>, <<"$", "$", "A">>}

NilMap == [isNil |-> TRUE, kv |-> {}]
EmptyMap == [isNil |-> FALSE, kv |-> {}]

\* m[k] = v on a map that was made when it was nil
MapSet(m, k, v) == [isNil |-> FALSE, kv |-> {e \in m.kv : e[1] # k} \cup {<<k, v>>}]
\* delete(m, k)
MapDelete(m, k) == [m EXCEPT !.kv = {e \in m.kv : e[1] # k}]

\* docker.Port(p): a conversion between two string types
DockerPort(p) == p

\* the closure reset of SetEnv applied to one list: v is expanded once for
\* every entry the list holds, against the list as it was, and stays
\* expanded for the next call of the closure
EnvReset(list, k, v) ==
    LET V[i \in 0..Len(list)] == IF i = 0 THEN v ELSE Expand(V[i-1], list)
        kept == WithoutKey(list, k)
    IN  [list |-> Append(kept, k \o <<"=">> \o V[Len(list)]), v |-> V[Len(list)]]

\* the closure unset of UnsetEnv applied to one list
EnvUnset(list, k) == WithoutKey(list, k)

\* one more setter call on the Builder; the commit is not touched
CfgStep == /\ calls < MaxCalls
           /\ calls' = calls + 1
           /\ UNCHANGED commitVars

SetOS(os) ==
    /\ CfgStep
    /\ OCIv1' = [OCIv1 EXCEPT !.OS = os]
    /\ Docker' = [Docker EXCEPT !.OS = os]

SetArchitecture(arch) ==
    /\ CfgStep
    /\ OCIv1' = [OCIv1 EXCEPT !.Architecture = arch]
    /\ Docker' = [Docker EXCEPT !.Architecture = arch]

SetMaintainer(who) ==
    /\ CfgStep
    /\ OCIv1' = [OCIv1 EXCEPT !.Author = who]
    /\ Docker' = [Docker EXCEPT !.Author = who]

SetUser(spec) ==
    /\ CfgStep
    /\ OCIv1' = [OCIv1 EXCEPT !.Config.User = spec]
    /\ Docker' = [Docker EXCEPT !.ContainerConfig.User = spec]

SetWorkDir(there) ==
    /\ CfgStep
    /\ OCIv1' = [OCIv1 EXCEPT !.Config.WorkingDir = there]
    /\ Docker' = [Docker EXCEPT !.ContainerConfig.WorkingDir = there]

SetCmd(cmd) ==
    /\ CfgStep
    /\ OCIv1' = [OCIv1 EXCEPT !.Config.Cmd = cmd]
    /\ Docker' = [Docker EXCEPT !.ContainerConfig.Cmd = cmd]

SetEntrypoint(ep) ==
    /\ CfgStep
    /\ OCIv1' = [OCIv1 EXCEPT !.Config.Entrypoint = ep]
    /\ Docker' = [Docker EXCEPT !.ContainerConfig.Entrypoint = ep]

SetEnv(k, v) ==
    LET first == EnvReset(OCIv1.Config.Env, k, v)
        second == EnvReset(Docker.ContainerConfig.Env, k, first.v)
    IN  /\ CfgStep
        /\ OCIv1' = [OCIv1 EXCEPT !.Config.Env = first.list]
        /\ Docker' = [Docker EXCEPT !.ContainerConfig.Env = second.list]

UnsetEnv(k) ==
    /\ CfgStep
    /\ OCIv1' = [OCIv1 EXCEPT !.Config.Env = EnvUnset(@, k)]
    /\ Docker' = [Docker EXCEPT !.ContainerConfig.Env = EnvUnset(@, k)]

ClearEnv ==
    /\ CfgStep
    /\ OCIv1' = [OCIv1 EXCEPT !.Config.Env = <<>>]
    /\ Docker' = [Docker EXCEPT !.ContainerConfig.Env = <<>>]

SetLabel(k, v) ==
    /\ CfgStep
    /\ OCIv1' = [OCIv1 EXCEPT !.Config.Labels = MapSet(@, k, v)]
    /\ Docker' = [Docker EXCEPT !.ContainerConfig.Labels = MapSet(@, k, v)]

UnsetLabel(k) ==
    /\ CfgStep
    /\ OCIv1' = [OCIv1 EXCEPT !.Config.Labels = MapDelete(@, k)]
    /\ Docker' = [Docker EXCEPT !.ContainerConfig.Labels = MapDelete(@, k)]

ClearLabels ==
    /\ CfgStep
    /\ OCIv1' = [OCIv1 EXCEPT !.Config.Labels = EmptyMap]
    /\ Docker' = [Docker EXCEPT !.ContainerConfig.Labels = EmptyMap]

SetPort(p) ==
    /\ CfgStep
    /\ OCIv1' = [OCIv1 EXCEPT !.Config.ExposedPorts = MapSet(@, p, "")]
    /\ Docker' = [Docker EXCEPT !.ContainerConfig.ExposedPorts = MapSet(@, DockerPort(p), "")]

UnsetPort(p) ==
    /\ CfgStep
    /\ OCIv1' = [OCIv1 EXCEPT !.Config.ExposedPorts = MapDelete(@, p)]
    /\ Docker' = [Docker EXCEPT !.ContainerConfig.ExposedPorts = MapDelete(@, DockerPort(p))]

ClearPorts ==
    /\ CfgStep
    /\ OCIv1' = [OCIv1 EXCEPT !.Config.ExposedPorts = EmptyMap]
    /\ Docker' = [Docker EXCEPT !.ContainerConfig.ExposedPorts = EmptyMap]

AddVolume(v) ==
    /\ CfgStep
    /\ OCIv1' = [OCIv1 EXCEPT !.Config.Volumes = MapSet(@, v, "")]
    /\ Docker' = [Docker EXCEPT !.ContainerConfig.Volumes = MapSet(@, v, "")]

RemoveVolume(v) ==
    /\ CfgStep
    /\ OCIv1' = [OCIv1 EXCEPT !.Config.Volumes = MapDelete(@, v)]
    /\ Docker' = [Docker EXCEPT !.ContainerConfig.Volumes = MapDelete(@, v)]

ClearVolumes ==
    /\ CfgStep
    /\ OCIv1' = [OCIv1 EXCEPT !.Config.Volumes = EmptyMap]
    /\ Docker' = [Docker EXCEPT !.ContainerConfig.Volumes = EmptyMap]

SetStopSignal(stopSignal) ==
    /\ CfgStep
    /\ OCIv1' = [OCIv1 EXCEPT !.Config.StopSignal = stopSignal]
    /\ Docker' = [Docker EXCEPT !.ContainerConfig.StopSignal = stopSignal]

\* the setters of the fields only the Docker format has
SetHostname(name) ==
    /\ CfgStep
    /\ Docker' = [Docker EXCEPT !.ContainerConfig.Hostname = name]
    /\ UNCHANGED OCIv1

SetDomainname(name) ==
    /\ CfgStep
    /\ Docker' = [Docker EXCEPT !.ContainerConfig.Domainname = name]
    /\ UNCHANGED OCIv1

SetComment(comment) ==
    /\ CfgStep
    /\ Docker' = [Docker EXCEPT !.Comment = comment]
    /\ UNCHANGED OCIv1

SetOnBuild(onBuild) ==
    /\ CfgStep
    /\ Docker' = [Docker EXCEPT !.ContainerConfig.OnBuild = Append(@, onBuild)]
    /\ UNCHANGED OCIv1

ClearOnBuild ==
    /\ CfgStep
    /\ Docker' = [Docker EXCEPT !.ContainerConfig.OnBuild = <<>>]
    /\ UNCHANGED OCIv1

SetShell(shell) ==
    /\ CfgStep
    /\ Docker' = [Docker EXCEPT !.ContainerConfig.Shell = shell]
    /\ UNCHANGED OCIv1

\* the runtime configuration both formats hold
OCIConfigOf(env) ==
    [User |-> "", WorkingDir |-> "/", Cmd |-> <<>>, Entrypoint |-> <<>>, Env |-> env,
     Labels |-> NilMap, ExposedPorts |-> NilMap, Volumes |-> NilMap, StopSignal |-> ""]

DockerConfigOf(env) ==
    [User |-> "", WorkingDir |-> "/", Cmd |-> <<>>, Entrypoint |-> <<>>, Env |-> env,
     Labels |-> NilMap, ExposedPorts |-> NilMap, Volumes |-> NilMap, StopSignal |-> "",
     Hostname |-> "", Domainname |-> "", OnBuild |-> <<>>, Shell |-> <<>>]

DockerConfigCopiedAtLoad == DockerConfigOf(<< <<"A", "=", "x">> >>)
\* fixupConfig: b.Docker.Config = &b.Docker.ContainerConfig; what the
\* setters and getters reach through b.Docker.Config
DockerConfig == Docker.ContainerConfig

\* the documents of a Builder after initConfig and fixupConfig: the image's
\* environment, history (the EmptyLayer flag of each entry) and diff IDs
OCIv1Of(env, history, diffIDs) ==
    [OS |-> "linux", Architecture |-> "amd64", Author |-> "", Created |-> 1,
     Config |-> OCIConfigOf(env), History |-> history, DiffIDs |-> diffIDs]

DockerOf(env, history, diffIDs) ==
    [OS |-> "linux", Architecture |-> "amd64", Author |-> "", Comment |-> "",
     Created |-> 1, Parent |-> "", Container |-> "",
     ContainerConfig |-> DockerConfigOf(env), History |-> history, DiffIDs |-> diffIDs]


-----------------------------------------------------------------------------
(* image.go: bytes, digests and the store.                                 *)

\* the value of options.HistoryTimestamp when it is set (0: nil, the zero time)
HistoryTime == 7

\* a byte stream: what it is (a tar archive, an encrypted disk image), the
\* content it carries, the extra image content in it (the paths, in the
\* order written, and their ModTime), whether its tar headers name users,
\* the time in its tar headers (0: the zero time) and whether it is gzipped
Bytes(kind, body, extra, xtime, uname, mtime) ==
    [kind |-> kind, body |-> body, extra |-> extra, xtime |-> xtime,
     uname |-> uname, mtime |-> mtime, gz |-> FALSE]

\* the digest "" (not known)
NoDigest == [kind |-> "none", body |-> 0, extra |-> <<>>, xtime |-> 0,
             uname |-> FALSE, mtime |-> 0, gz |-> FALSE]

\* digest.Canonical.FromBytes and a Digester's Digest(): the digest stands
\* for the bytes it was computed from
DigestOf(bytes) == bytes

\* the number of bytes of a stream
SizeOf(bytes) ==
    IF bytes.kind = "json" THEN 1 + Len(bytes.doc.History) + Len(bytes.doc.DiffIDs)
    ELSE 10 * bytes.body + Len(bytes.extra) + (IF bytes.gz THEN 0 ELSE 5)

\* json.Marshal and json.Unmarshal
Marshal(doc) == [kind |-> "json", doc |-> doc]
Unmarshal(bytes) == bytes.doc

\* the storage layers of the container: the read-write layer "top" and its
\* parents "p1" (the oldest) .. "pn"
LayerName(n) == CASE n = 1 -> "p1" [] n = 2 -> "p2" [] n = 3 -> "p3" [] OTHER -> "p4"
ParentIndex(id) == CHOOSE n \in 1..4 : LayerName(n) = id
TopLayerID == "top"
StoreHas(id) == id = TopLayerID \/ \E n \in 1..Len(in.parents) : LayerName(n) = id

\* store.Diff("", id, uncompressed): the layer's tar stream as storage has it
StoreDiff(id) ==
    IF id = TopLayerID THEN Bytes("tar", 1, <<>>, 0, TRUE, 1)
    ELSE Bytes("tar", in.parents[ParentIndex(id)].body, <<>>, 0, FALSE, 1)

\* store.Layer(id)
StoreLayer(id) ==
    LET n == IF id = TopLayerID THEN Len(in.parents) + 1 ELSE ParentIndex(id)
        known == id # TopLayerID /\ in.parents[n].known
    IN  [ID |-> id,
         Parent |-> IF n = 1 THEN "" ELSE LayerName(n - 1),
         UncompressedDigest |-> IF known THEN DigestOf(StoreDiff(id)) ELSE NoDigest,
         UncompressedSize |-> IF known THEN SizeOf(StoreDiff(id)) ELSE -1]

\* copier.Get of the mounted container: the tar stream of the whole rootfs
RootfsTar == Bytes("tar", 4, <<>>, 0, TRUE, 1)
\* mkcw.Archive of the mounted container: the encrypted disk image
WorkloadImage == Bytes("luks", 4, <<>>, 0, FALSE, 0)

-----------------------------------------------------------------------------
(* image.go: what a commit is given.                                       *)

Compressions == {"Uncompressed", "Gzip", "Bzip2", "Xz", "Zstd"}

\* a LinkedLayer: History.EmptyLayer, BlobPath ("": none) and the content
\* of the blob
LinkedEmpty == [emptyLayer |-> TRUE, blobPath |-> "", body |-> 0]
LinkedBlob == [emptyLayer |-> FALSE, blobPath |-> "file", body |-> 1]
LinkedDir == [emptyLayer |-> FALSE, blobPath |-> "dir", body |-> 3]
LinkedBad == [emptyLayer |-> TRUE, blobPath |-> "file", body |-> 3]

\* a parent layer: whether storage knows its uncompressed digest, its content
ParentKinds == {[known |-> TRUE, body |-> 1], [known |-> FALSE, body |-> 2]}
KnownParents(n) == [i \in 1..n |-> [known |-> TRUE, body |-> i]]
ParentLists == UNION {[1..n -> ParentKinds] : n \in 0..MaxParents}

\* the steps at which the outside world can fail a commit
Faults == {"container", "layer", "mkdir", "lookup", "diff", "mount", "archive", "open",
           "create", "rename"}

\* a plain commit of a container with one parent layer
Plain ==
    [squash |-> FALSE, convert |-> FALSE, emptyLayer |-> FALSE, omitHistory |-> FALSE,
     compression |-> "Uncompressed", manifestType |-> "", extra |-> 0,
     timestamp |-> 0, optPre |-> <<>>, optPost |-> <<>>, bPre |-> <<>>, bPost |-> <<>>,
     preEmpty |-> 0, postEmpty |-> 0, parents |-> KnownParents(1),
     fromImageID |-> <<"i", "d">>, fromImageName |-> <<>>, unsetEnvs |-> <<>>,
     historyComment |-> <<>>, baseHistory |-> "full", fault |-> "none"]

\* the histories a base image can come with: an entry for each layer, one
\* entry too few, an entry for no layer before them, none at all
BaseHistoryKinds == {"full", "short", "longer", "none"}

\* Squash and ConfidentialWorkload.Convert
Modes == {<<FALSE, FALSE>>, <<TRUE, FALSE>>, <<FALSE, TRUE>>}

\* commits that differ in the layers they produce
LayerInputs ==
    {[Plain EXCEPT !.squash = m[1], !.convert = m[2], !.emptyLayer = el,
                   !.compression = c, !.extra = x, !.timestamp = t,
                   !.parents = ps, !.bPre = l[1], !.optPost = l[2]] :
        m \in Modes, el \in BOOLEAN, c \in {"Uncompressed", "Gzip"},
        x \in 0..MaxExtra, t \in {0, HistoryTime}, ps \in ParentLists,
        l \in {<<<<>>, <<>>>>, <<<<LinkedBlob>>, <<>>>>, <<<<>>, <<LinkedBlob>>>>}}

\* commits that differ in the history they produce
HistoryInputs ==
    {[Plain EXCEPT !.emptyLayer = el, !.omitHistory = oh, !.extra = x,
                   !.preEmpty = pe, !.postEmpty = qe, !.optPre = pl, !.bPost = ql,
                   !.parents = KnownParents(n)] :
        el \in BOOLEAN, oh \in BOOLEAN, x \in 0..1, pe \in 0..1, qe \in 0..1,
        pl \in {<<>>, <<LinkedEmpty>>, <<LinkedBlob>>}, ql \in {<<>>, <<LinkedDir>>},
        n \in 0..MaxParents}

\* commits that differ in the base image they start from
BaseInputs ==
    {[Plain EXCEPT !.emptyLayer = el, !.bPre = pl, !.parents = KnownParents(n),
                   !.baseHistory = bh, !.fromImageName = nm] :
        el \in BOOLEAN, pl \in {<<>>, <<LinkedBlob>>}, n \in 0..MaxParents,
        bh \in BaseHistoryKinds, nm \in {<<>>, <<"f">>}}

\* commits that produce one layer
SingleLayerInputs ==
    {[Plain EXCEPT !.squash = sq, !.convert = ~sq, !.omitHistory = oh, !.extra = x,
                   !.preEmpty = pe, !.bPre = pl, !.optPre = ol, !.emptyLayer = el,
                   !.parents = KnownParents(n)] :
        sq \in BOOLEAN, oh \in BOOLEAN, x \in 0..MaxExtra, pe \in 0..1,
        pl \in {<<>>, <<LinkedBlob>>}, ol \in {<<>>, <<LinkedBlob>>},
        el \in BOOLEAN, n \in 0..1}

\* commits that the outside world fails, or that ask for what cannot be done
FailingInputs ==
    {[Plain EXCEPT !.fault = f, !.squash = m[1], !.convert = m[2], !.compression = c,
                   !.bPre = pl] :
        f \in Faults \cup {"none"}, m \in Modes,
        c \in Compressions \ {"Gzip"}, pl \in {<<>>, <<LinkedBlob>>, <<LinkedBad>>}}
    \cup {[Plain EXCEPT !.squash = m[1], !.convert = m[2], !.manifestType = mt] :
              m \in Modes, mt \in {"docker", "bogus"}}

\* the names a base image can have: none, one that is not an image id, the
\* start of the image id, the image id followed by more
FromImageNames == {<<>>, <<"f">>, <<"i">>, <<"i", "d", "x">>}
\* the ids a base image can have: a valid one, one that is no digest, none
\* (a container made from scratch)
FromImageIDs == {<<"i", "d">>, <<"i", "?">>, <<>>}

\* commits that differ in the name and the id of the base image and in the
\* comment of the history entry
FromInputs ==
    {[Plain EXCEPT !.fromImageID = b[1], !.fromImageName = b[2], !.historyComment = hc,
                   !.preEmpty = pe, !.bPre = pl, !.squash = sq,
                   !.parents = KnownParents(IF b[1] = <<>> THEN 0 ELSE 1)] :
        b \in {c \in FromImageIDs \X FromImageNames : c[1] = <<>> => c[2] = <<>>},
        hc \in {<<>>, <<"c">>}, pe \in 0..1, pl \in {<<>>, <<LinkedBlob>>},
        sq \in BOOLEAN}

\* commits that are asked to leave variables out of the environment
UnsetEnvInputs ==
    {[Plain EXCEPT !.unsetEnvs = us, !.squash = m[1], !.convert = m[2], !.timestamp = t] :
        us \in {<<>>, << <<"A">> >>, << <<"B">> >>, << <<"A">>, <<"B">> >>},
        m \in Modes, t \in {0, HistoryTime}}

Inputs ==
    LayerInputs \cup HistoryInputs \cup BaseInputs \cup SingleLayerInputs \cup FailingInputs
        \cup UnsetEnvInputs \cup FromInputs

\* a history entry
HistoryEntry(createdBy, dir, empty, comment, created) ==
    [CreatedBy |-> createdBy, dir |-> dir, EmptyLayer |-> empty, Comment |-> comment,
     Created |-> created]

\* the histories a base image with n layers can have: one entry for each
\* layer; one entry less; one entry for each layer after an entry for no layer
BaseEntry(empty) == HistoryEntry("base", NoDigest, empty, <<>>, 1)
BaseHistory(kind, n) ==
    CASE kind = "full" -> [i \in 1..n |-> BaseEntry(FALSE)]
      [] kind = "short" -> [i \in 1..(IF n = 0 THEN 0 ELSE n - 1) |-> BaseEntry(FALSE)]
      [] kind = "longer" -> <<BaseEntry(TRUE)>> \o [i \in 1..n |-> BaseEntry(FALSE)]
      [] OTHER -> <<>>


-----------------------------------------------------------------------------
(* image.go: makeContainerImageRef.                                        *)

Digit(n) == CASE n = 1 -> "1" [] n = 2 -> "2" [] n = 3 -> "3" [] OTHER -> "4"

\* fmt.Sprintf("(%s %d)", layerType, i+1)
LayerToken(layerType, n) == "(" \o layerType \o " " \o Digit(n) \o ")"

\* the History of a LinkedLayer
LinkedHistory(l, created) == HistoryEntry("linked", NoDigest, l.emptyLayer, <<>>, created)

\* makeLinkedLayerInfos: the infos of the layers that have content, the
\* error that ended it, and the number of blobs it read and digested
MakeLinkedLayerInfos(ls, layerType) ==
    LET F[i \in 0..Len(ls)] ==
            IF i = 0 THEN [err |-> "", infos |-> <<>>, reads |-> 0]
            ELSE LET r == F[i-1]
                     l == ls[i]
                     content == Bytes("tar", l.body, <<>>, 0, FALSE, 1)
                 IN  IF r.err # "" THEN r
                     ELSE IF l.emptyLayer # (l.blobPath = "")
                          THEN [r EXCEPT !.err = "internal error: layer-is-empty"]
                     ELSE IF l.emptyLayer THEN r
                     ELSE [err |-> "",
                           infos |-> Append(r.infos,
                               [layerID |-> LayerToken(layerType, i),
                                linkedLayer |->
                                    [l EXCEPT !.blobPath = IF @ = "dir" THEN "tmpfile" ELSE @],
                                history |-> LinkedHistory(l, 1),
                                blob |-> content,
                                uncompressedDigest |-> DigestOf(content),
                                size |-> SizeOf(content)]),
                           reads |-> r.reads + 1]
    IN  F[Len(ls)]

\* the image ids digest.NewDigestFromEncoded(...).Validate() accepts
ValidEncoded(id) == id = <<"i", "d">>

NoRef ==
    [fromImageName |-> <<>>, fromImageID |-> <<>>, compression |-> "", layerID |-> "",
     oconfig |-> Marshal(OCIv1Of(<<>>, <<>>, 0)), dconfig |-> Marshal(DockerOf(<<>>, <<>>, 0)),
     created |-> 0, createdBy |-> "", manifestType |-> "", squash |-> FALSE,
     convert |-> FALSE, omitHistory |-> FALSE, emptyLayer |-> FALSE, parent |-> <<>>,
     preEmptyLayers |-> <<>>, preLayers |-> <<>>, postEmptyLayers |-> <<>>,
     postLayers |-> <<>>, extra |-> 0, historyComment |-> <<>>]

\* b.UnsetEnv(u) for every u of options.UnsetEnvs, on one list
RECURSIVE UnsetAll(_, _)
UnsetAll(list, us) ==
    IF us = <<>> THEN list ELSE UnsetAll(EnvUnset(list, Head(us)), Tail(us))

RefOmitHistoryAsAsked == in.omitHistory
\* the omitHistory of the reference: asked for, or forced because the parent
\* image has layers and no history
RefOmitHistory ==
    \/ in.omitHistory
    \/ /\ in.fromImageID # <<>>
       /\ ~in.omitHistory
       /\ Len(OCIv1.History) = 0
       /\ OCIv1.DiffIDs # 0

RefEmptyLayerNever == FALSE
\* the emptyLayer of the reference
RefEmptyLayer == in.emptyLayer /\ ~in.squash /\ ~in.convert

RemovedNever(dir) == dir
\* NewImageSource's deferred function: os.RemoveAll of the blob directory
\* when no source is returned
RemovedWithoutSource(dir) == [exists |-> FALSE, files |-> {}, tmp |-> FALSE]

\* the commit returns the error e and no source
Fail(e) ==
    /\ pc' = "failed"
    /\ err' = e
    /\ staging' = RemovedWithoutSource(staging)

MakeContainerImageRef ==
    LET pre == MakeLinkedLayerInfos(in.bPre \o in.optPre, "prepended layer")
        post == MakeLinkedLayerInfos(in.optPost \o in.bPost, "appended layer")
        created == in.timestamp
        stamp(infos) ==
            [i \in 1..Len(infos) |->
                [infos[i] EXCEPT !.history.Created = IF created # 0 THEN created ELSE @]]
        oenv == UnsetAll(OCIv1.Config.Env, in.unsetEnvs)
        denv == UnsetAll(Docker.ContainerConfig.Env, in.unsetEnvs)
        odoc == [OCIv1 EXCEPT !.Config.Env = oenv]
        ddoc == [Docker EXCEPT !.ContainerConfig.Env = denv]
    IN  /\ pc = "start"
        /\ UNCHANGED <<calls, in, rootfs, layers, parentLayerIDs, apiLayerIDs, idx, omanifest,
                       dmanifest, oimage, dimage, blobLayers, extraDiff, src, clock,
                       prev, blob>>
        /\ IF (Len(in.optPre) > 0 \/ Len(in.optPost) > 0) /\ (in.convert \/ in.squash)
           THEN /\ Fail("can't add prebuilt layers and produce an image with only one layer")
                /\ UNCHANGED <<OCIv1, Docker, ref, io>>
           ELSE IF in.fault = "container"
           THEN /\ Fail("locating container")
                /\ UNCHANGED <<OCIv1, Docker, ref, io>>
           ELSE /\ OCIv1' = odoc
                /\ Docker' = ddoc
                /\ IF pre.err # ""
                   THEN /\ Fail(pre.err)
                        /\ io' = [io EXCEPT !.blobReads = @ + pre.reads]
                        /\ UNCHANGED ref
                   ELSE IF post.err # ""
                   THEN /\ Fail(post.err)
                        /\ io' = [io EXCEPT !.blobReads = @ + pre.reads + post.reads]
                        /\ UNCHANGED ref
                   ELSE /\ io' = [io EXCEPT !.blobReads = @ + pre.reads + post.reads]
                        /\ ref' =
                            [fromImageName |-> in.fromImageName,
                             fromImageID |-> in.fromImageID,
                             compression |-> in.compression,
                             layerID |-> TopLayerID,
                             oconfig |-> Marshal(odoc),
                             dconfig |-> Marshal(ddoc),
                             created |-> created,
                             createdBy |-> "/bin/sh",
                             manifestType |-> IF in.manifestType = "" THEN "oci"
                                              ELSE in.manifestType,
                             squash |-> in.squash,
                             convert |-> in.convert,
                             omitHistory |-> RefOmitHistory,
                             emptyLayer |-> RefEmptyLayer,
                             parent |-> IF in.fromImageID # <<>> /\ ValidEncoded(in.fromImageID)
                                        THEN <<"sha256:">> \o in.fromImageID ELSE <<>>,
                             preEmptyLayers |->
                                 [i \in 1..in.preEmpty |->
                                     HistoryEntry("pre-empty", NoDigest, TRUE, <<>>,
                                                  IF created # 0 THEN created ELSE 1)],
                             preLayers |-> stamp(pre.infos),
                             postEmptyLayers |->
                                 [i \in 1..in.postEmpty |->
                                     HistoryEntry("post-empty", NoDigest, TRUE, <<>>,
                                                  IF created # 0 THEN created ELSE 1)],
                             postLayers |-> stamp(post.infos),
                             extra |-> in.extra,
                             historyComment |-> in.historyComment]
                        /\ pc' = "ref"
                        /\ UNCHANGED <<err, staging>>


-----------------------------------------------------------------------------
(* image.go: NewImageSource, the layer list and the fresh configurations.  *)

SynthesizedLayerID == "(synthesized layer)"

\* the walk over the parent layers: the list and the parent ids after the
\* layer id was added and the layers below it were walked
AddLayerAtEnd(layerID, list) == Append(list, layerID)
\* the layer of the container is appended, a parent layer is prepended
AddLayer(layerID, list) ==
    IF layerID = ref.layerID THEN Append(list, layerID) ELSE <<layerID>> \o list

StopWalkAtRoot(next) == next = ""
\* the walk ends at the layer that has no parent, and after the layer of
\* the container when one layer is produced
StopWalk(next) == next = "" \/ ref.convert \/ ref.squash

RECURSIVE WalkParents(_, _, _)
WalkParents(layerID, list, parents) ==
    LET added == AddLayer(layerID, list)
        seen == IF layerID = ref.layerID THEN parents ELSE parents \cup {layerID}
        next == StoreLayer(layerID).Parent
    IN  IF StopWalk(next)
        THEN [layers |-> added, parentLayerIDs |-> seen]
        ELSE WalkParents(next, added, seen)

TokensOf(infos) == [i \in 1..Len(infos) |-> infos[i].layerID]

SynthesizedLayersInEveryMode == IF ref.extra > 0 THEN <<SynthesizedLayerID>> ELSE <<>>
\* the placeholder of the layer that holds the extra image content
SynthesizedLayers ==
    IF ref.extra > 0 /\ ~ref.convert /\ ~ref.squash THEN <<SynthesizedLayerID>> ELSE <<>>

\* the list of layers NewImageSource plans
PlannedLayers ==
    LET walked == WalkParents(ref.layerID, TokensOf(ref.preLayers), {})
        extra == SynthesizedLayers
    IN  [layers |-> walked.layers \o extra \o TokensOf(ref.postLayers),
         parentLayerIDs |-> walked.parentLayerIDs,
         apiLayerIDs |-> Range(TokensOf(ref.preLayers)) \cup Range(TokensOf(ref.postLayers))]

\* apiLayers
ApiLayers == ref.preLayers \o ref.postLayers

\* time.Now() when no timestamp was asked for
CreatedOrNow == IF ref.created # 0 THEN ref.created ELSE clock

\* what the confidential workload conversion overwrites in a configuration
WorkloadConfig(c) ==
    [c EXCEPT !.Entrypoint = <<"/entrypoint">>, !.Cmd = <<>>, !.User = "",
              !.WorkingDir = "", !.Volumes = NilMap, !.ExposedPorts = NilMap]

\* createConfigsAndManifests: the OCI image
FreshOCIImage ==
    LET doc == Unmarshal(ref.oconfig)
    IN  [OS |-> doc.OS, Architecture |-> doc.Architecture, Author |-> doc.Author,
         Created |-> CreatedOrNow,
         Config |-> IF ref.convert THEN WorkloadConfig(doc.Config) ELSE doc.Config,
         History |-> IF ref.convert \/ ref.squash \/ ref.omitHistory THEN <<>>
                     ELSE doc.History,
         DiffIDs |-> <<>>]

\* createConfigsAndManifests: the Docker image
FreshDockerImage ==
    LET doc == Unmarshal(ref.dconfig)
    IN  [OS |-> doc.OS, Architecture |-> doc.Architecture, Author |-> doc.Author,
         Comment |-> doc.Comment,
         Created |-> CreatedOrNow,
         Parent |-> IF ref.convert \/ ref.squash \/ ref.omitHistory THEN "" ELSE doc.Parent,
         Container |-> "container",
         ContainerConfig |-> doc.ContainerConfig,
         Config |-> IF ref.convert
                    THEN [WorkloadConfig(doc.ContainerConfig) EXCEPT !.Shell = <<>>]
                    ELSE doc.ContainerConfig,
         History |-> IF ref.convert \/ ref.squash \/ ref.omitHistory THEN <<>>
                     ELSE doc.History,
         DiffIDs |-> <<>>]

\* the first part of NewImageSource: the manifest type, the layer list, the
\* blob directory, the configurations
PlanLayers ==
    LET plan == PlannedLayers
    IN  /\ pc = "ref"
        /\ UNCHANGED <<OCIv1, Docker, calls, in, rootfs, ref, omanifest, dmanifest, blobLayers,
                       extraDiff, src, io, clock, prev, blob>>
        /\ IF ref.manifestType \notin {"oci", "docker"}
           THEN /\ Fail("no supported manifest types")
                /\ UNCHANGED <<layers, parentLayerIDs, apiLayerIDs, idx, oimage, dimage>>
           ELSE IF in.fault = "layer"
           THEN /\ Fail("unable to read layer")
                /\ UNCHANGED <<layers, parentLayerIDs, apiLayerIDs, idx, oimage, dimage>>
           ELSE /\ layers' = plan.layers
                /\ parentLayerIDs' = plan.parentLayerIDs
                /\ apiLayerIDs' = plan.apiLayerIDs
                /\ IF in.fault = "mkdir"
                   THEN /\ Fail("creating temporary directory to hold layer blobs")
                        /\ UNCHANGED <<idx, oimage, dimage>>
                   ELSE /\ staging' = [exists |-> TRUE, files |-> {}, tmp |-> FALSE]
                        /\ oimage' = FreshOCIImage
                        /\ dimage' = FreshDockerImage
                        /\ idx' = 1
                        /\ pc' = "loop"
                        /\ UNCHANGED err


-----------------------------------------------------------------------------
(* image.go: NewImageSource, one turn of the loop over the layers.         *)

ComputeLayerMIMETypeAsGzip(layerCompression) ==
    [omediaType |-> "image.layer.v1.tar+gzip", dmediaType |-> "image.rootfs.diff.tar.gzip",
     err |-> ""]
\* computeLayerMIMEType
ComputeLayerMIMEType(layerCompression) ==
    CASE layerCompression = "Uncompressed" ->
            [omediaType |-> "image.layer.v1.tar", dmediaType |-> "image.rootfs.diff.tar",
             err |-> ""]
      [] layerCompression = "Gzip" ->
            [omediaType |-> "image.layer.v1.tar+gzip",
             dmediaType |-> "image.rootfs.diff.tar.gzip", err |-> ""]
      [] layerCompression = "Bzip2" ->
            [omediaType |-> "", dmediaType |-> "",
             err |-> "media type for bzip2-compressed layers is not defined"]
      [] layerCompression = "Xz" ->
            [omediaType |-> "", dmediaType |-> "",
             err |-> "media type for xz-compressed layers is not defined"]
      [] layerCompression = "Zstd" ->
            [omediaType |-> "", dmediaType |-> "",
             err |-> "media type for zstd-compressed layers is not defined"]
      [] OTHER ->
            [omediaType |-> "image.layer.v1.tar", dmediaType |-> "image.rootfs.diff.tar",
             err |-> ""]

MediaTypeErrors ==
    {"media type for bzip2-compressed layers is not defined",
     "media type for xz-compressed layers is not defined",
     "media type for zstd-compressed layers is not defined"}

\* the orders in which a range over a map of n entries can visit them
Perms(n) == {p \in [1..n -> 1..n] : \A i, j \in 1..n : p[i] = p[j] => i = j}

\* makeExtraImageContentDiff: the archive of the extra image content, its
\* entries in the order the map was ranged over, their ModTime the
\* timestamp asked for or the time of the call
ExtraImageContentDiff(order) == Bytes("tar", 0, order, CreatedOrNow, FALSE, 0)

\* the filter newTarFilterer is given: user and group names are cleared, and
\* times that are set become the timestamp asked for
TarFilter(bytes) ==
    IF bytes.kind # "tar" THEN bytes
    ELSE [bytes EXCEPT
            !.uname = FALSE,
            !.mtime = IF ref.created # 0 /\ @ # 0 THEN ref.created ELSE @,
            !.xtime = IF ref.created # 0 /\ @ # 0 THEN ref.created ELSE @]

\* archive.CompressStream
CompressStream(bytes, compression) ==
    IF compression = "Uncompressed" THEN bytes ELSE [bytes EXCEPT !.gz = TRUE]

DestDigestOfSource(filtered, written) == DigestOf(filtered)
\* the digest the blob is stored and listed under: the hash of what was
\* written to the file when compressing, the source hash otherwise
DestDigest(filtered, written) ==
    IF ref.compression # "Uncompressed" THEN DigestOf(written) ELSE DigestOf(filtered)

\* the stream of the whole container: the encrypted disk image, or the
\* extra image content followed by the tar of the rootfs
ContainerStream(order) ==
    IF ref.convert THEN WorkloadImage
    ELSE IF ref.extra > 0
         THEN [RootfsTar EXCEPT !.extra = order, !.xtime = CreatedOrNow]
         ELSE RootfsTar

Descriptor(mediaType, digest, size) ==
    [MediaType |-> mediaType, Digest |-> digest, Size |-> size]

DockerLayerOfUnknownSize(mediaType, digest, size) == Descriptor(mediaType, digest, -1)
\* dlayerDescriptor: the Docker manifest's note of a layer that was written
\* to a file
DockerLayerDescriptor(mediaType, digest, size) == Descriptor(mediaType, digest, size)

ReuseNever(layerID, uncompressedDigest) == FALSE
\* whether the layer is listed as storage has it, without reading it
ReuseLayer(layerID, uncompressedDigest) ==
    /\ ~ref.convert
    /\ ~ref.squash
    /\ layerID \in parentLayerIDs
    /\ uncompressedDigest # NoDigest

\* whether the turn of the loop for layerID returns an error before it
\* starts to read the layer or the container
FailsBeforeStream(layerID) ==
    \/ /\ layerID \notin apiLayerIDs
       /\ layerID # SynthesizedLayerID
       /\ in.fault = "lookup"
    \/ ComputeLayerMIMEType(ref.compression).err # ""

\* extractRootfs, extractConfidentialWorkloadFS: the container is mounted;
\* when mkcw.Archive fails it is unmounted before the error is returned
MountContainer ==
    /\ pc = "loop"
    /\ idx <= Len(layers)
    /\ ref.convert \/ ref.squash
    /\ ~FailsBeforeStream(layers[idx])
    /\ UNCHANGED <<OCIv1, Docker, calls, in, rootfs, ref, layers, parentLayerIDs, apiLayerIDs, idx,
                   omanifest, dmanifest, oimage, dimage, blobLayers, extraDiff, src, clock,
                   prev, blob>>
    /\ IF in.fault = "mount"
       THEN /\ Fail("mounting container")
            /\ UNCHANGED io
       ELSE IF ref.convert /\ in.fault = "archive"
       THEN /\ Fail("converting rootfs")
            /\ io' = [io EXCEPT !.mounts = @ + 1, !.unmounts = @ + 1]
       ELSE /\ io' = [io EXCEPT !.mounts = @ + 1]
            /\ pc' = "mounted"
            /\ UNCHANGED <<err, staging>>

ReadCloserLeftOpen(o) == o
\* rc.Close(): the ReadCloser that extractRootfs and
\* extractConfidentialWorkloadFS return unmounts the container
ReadCloserClosed(o) ==
    IF ref.convert \/ ref.squash THEN [o EXCEPT !.unmounts = @ + 1] ELSE o

\* what one turn of the loop does for layerID when the map of extra image
\* content is ranged over in the given order
LayerOutcome(layerID, order) ==
    LET isApi == layerID \in apiLayerIDs
        isSynth == ~isApi /\ layerID = SynthesizedLayerID
        isStore == ~isApi /\ ~isSynth
        single == ref.convert \/ ref.squash
        info == LET k == CHOOSE k \in 1..Len(ApiLayers) :
                            /\ ApiLayers[k].layerID = layerID
                            /\ \A j \in 1..(k-1) : ApiLayers[j].layerID # layerID
                IN  ApiLayers[k]
        made == ExtraImageContentDiff(order)
        newExtraDiff == IF isSynth THEN [name |-> "extradiff", digest |-> DigestOf(made),
                                         file |-> made]
                        ELSE extraDiff
        uDigest == IF isApi THEN info.uncompressedDigest
                   ELSE IF isSynth THEN DigestOf(made)
                   ELSE StoreLayer(layerID).UncompressedDigest
        uSize == IF isApi THEN info.size
                 ELSE IF isSynth THEN SizeOf(made)
                 ELSE StoreLayer(layerID).UncompressedSize
        mime == ComputeLayerMIMEType(ref.compression)
        rc == IF single THEN ContainerStream(order)
              ELSE IF isApi THEN info.blob
              ELSE IF isSynth THEN made
              ELSE StoreDiff(layerID)
        opened == [io EXCEPT
                     !.blobReads = IF ~single /\ isApi THEN @ + 1 ELSE @,
                     !.diffs = IF ~single /\ isStore THEN @ + 1 ELSE @]
        closed == ReadCloserClosed(opened)
        filtered == TarFilter(rc)
        written == CompressStream(filtered, ref.compression)
        size == IF ref.compression = "Uncompressed" THEN SizeOf(rc) ELSE SizeOf(written)
        dest == DestDigest(filtered, written)
        failed(e, o, t) == [result |-> "fail", err |-> e, io |-> o, extraDiff |-> newExtraDiff,
                            creates |-> t]
    IN  IF isStore /\ in.fault = "lookup"
        THEN failed("unable to locate layer", io, 0)
        ELSE IF ReuseLayer(layerID, uDigest)
        THEN [result |-> "reuse", io |-> io, extraDiff |-> newExtraDiff,
              odesc |-> Descriptor("image.layer.v1.tar", uDigest, uSize),
              ddesc |-> Descriptor("image.rootfs.diff.tar", uDigest, uSize),
              diffID |-> uDigest,
              blobLayer |-> [digest |-> uDigest, ID |-> layerID, Size |-> uSize]]
        ELSE IF mime.err # "" THEN failed(mime.err, io, 0)
        ELSE IF ~single /\ isApi /\ in.fault = "open"
        THEN failed("opening layer blob", io, 0)
        ELSE IF ~single /\ isStore /\ ref.emptyLayer /\ layerID = ref.layerID
        THEN [result |-> "skip", io |-> io, extraDiff |-> newExtraDiff]
        ELSE IF ~single /\ isStore /\ in.fault = "diff"
        THEN failed("extracting layer", opened, 0)
        ELSE IF in.fault = "create" THEN failed("opening file for layer", closed, 0)
        ELSE IF ref.compression = "Uncompressed" /\ SizeOf(rc) # SizeOf(written)
        THEN failed("inconsistent layer size", closed, 1)
        ELSE IF in.fault = "rename" THEN failed("renaming layer file", closed, 1)
        ELSE [result |-> "stream", io |-> [closed EXCEPT !.creates = @ + 1],
              extraDiff |-> newExtraDiff,
              odesc |-> Descriptor(mime.omediaType, dest, size),
              ddesc |-> DockerLayerDescriptor(mime.dmediaType, dest, size),
              diffID |-> DigestOf(filtered),
              file |-> [name |-> dest, content |-> written]]

RenamedKeepingLayer(file) ==
    [staging EXCEPT !.files = {f \in @ : f.name # file.name} \cup {file}, !.tmp = TRUE]
\* os.Rename of the file "layer", which the turn created and wrote, to the
\* name of its digest: a file of that name is replaced, "layer" is no more
Renamed(file) ==
    [staging EXCEPT !.files = {f \in @ : f.name # file.name} \cup {file}, !.tmp = FALSE]

LayerStep ==
    /\ idx <= Len(layers)
    /\ \/ pc = "loop" /\ (FailsBeforeStream(layers[idx]) \/ ~(ref.convert \/ ref.squash))
       \/ pc = "mounted"
    /\ UNCHANGED <<OCIv1, Docker, calls, in, rootfs, ref, layers, parentLayerIDs, apiLayerIDs,
                   src, clock, prev, blob>>
    /\ \E order \in Perms(ref.extra) :
         LET out == LayerOutcome(layers[idx], order)
         IN  /\ extraDiff' = out.extraDiff
             /\ IF out.result = "fail"
                THEN /\ Fail(out.err)
                     /\ io' = [out.io EXCEPT !.creates = @ + out.creates]
                     /\ UNCHANGED <<idx, omanifest, dmanifest, oimage, dimage, blobLayers>>
                ELSE /\ io' = out.io
                     /\ idx' = idx + 1
                     /\ pc' = "loop"
                     /\ UNCHANGED err
                     /\ IF out.result = "skip"
                        THEN UNCHANGED <<omanifest, dmanifest, oimage, dimage, blobLayers,
                                         staging>>
                        ELSE /\ omanifest' = [omanifest EXCEPT !.Layers = Append(@, out.odesc)]
                             /\ dmanifest' = [dmanifest EXCEPT !.Layers = Append(@, out.ddesc)]
                             /\ oimage' = [oimage EXCEPT !.DiffIDs = Append(@, out.diffID)]
                             /\ dimage' = [dimage EXCEPT !.DiffIDs = Append(@, out.diffID)]
                             /\ IF out.result = "reuse"
                                THEN /\ blobLayers' =
                                          {b \in blobLayers : b.digest # out.blobLayer.digest}
                                              \cup {out.blobLayer}
                                     /\ UNCHANGED staging
                                ELSE /\ staging' = Renamed(out.file)
                                     /\ UNCHANGED blobLayers


-----------------------------------------------------------------------------
(* image.go: NewImageSource, the history, the configuration blobs and the  *)
(* image source.                                                           *)

\* strings.Contains
Contains(s, sub) ==
    \E k \in 0..(Len(s) - Len(sub)) : SubSeq(s, k + 1, k + Len(sub)) = sub

\* appendHistory
AppendHistory(history, entries, empty) ==
    history \o [i \in 1..Len(entries) |-> [entries[i] EXCEPT !.EmptyLayer = empty]]

\* the entries of a list of linked layers, each with its own EmptyLayer
RECURSIVE AppendLinkedHistory(_, _)
AppendLinkedHistory(history, infos) ==
    IF infos = <<>> THEN history
    ELSE AppendLinkedHistory(
             AppendHistory(history, <<Head(infos).history>>, Head(infos).history.EmptyLayer),
             Tail(infos))

FromAppliesUnlessIDStartsName ==
    /\ Contains(ref.parent, ref.fromImageID)
    /\ ref.fromImageName # <<>>
    /\ ~HasPrefix(ref.fromImageName, ref.fromImageID)
\* whether the history says which base image was used
FromApplies ==
    /\ Contains(ref.parent, ref.fromImageID)
    /\ ref.fromImageName # <<>>
    /\ ~HasPrefix(ref.fromImageID, ref.fromImageName)

FromCommentAlwaysSpaced(comment) == <<" ", "F", "R", "O", "M", " ">> \o ref.fromImageName
\* fromComment, for the entry whose Comment is comment
FromComment(comment) ==
    (IF comment # <<>> THEN <<" ">> ELSE <<>>) \o <<"F", "R", "O", "M", " ">>
        \o ref.fromImageName

SynthesizedHistoryNever(created) == <<>>
\* the history entry of the layer that holds the extra image content, when
\* that layer was made
SynthesizedHistory(created) ==
    IF extraDiff.name # ""
    THEN <<HistoryEntry("ADD dir", extraDiff.digest, FALSE, <<>>, created)>>
    ELSE <<>>

\* the history after the entries of this commit were appended to base
BuiltHistory(base) ==
    LET created == CreatedOrNow
        h1 == AppendLinkedHistory(AppendHistory(base, ref.preEmptyLayers, TRUE), ref.preLayers)
        h2 == Append(h1, HistoryEntry(ref.createdBy, NoDigest, ref.emptyLayer,
                                      ref.historyComment, created))
        h3 == h2 \o SynthesizedHistory(created)
        h4 == AppendLinkedHistory(AppendHistory(h3, ref.postEmptyLayers, TRUE), ref.postLayers)
    IN  IF FromApplies
        THEN [h4 EXCEPT ![Len(base) + 1].Comment = @ \o FromComment(@)]
        ELSE h4

\* expectedOCIDiffIDs, expectedDockerDiffIDs
ExpectedOCIDiffIDs(image) == Cardinality({i \in 1..Len(image.History) : ~image.History[i].EmptyLayer})
ExpectedDockerDiffIDs(image) == Cardinality({i \in 1..Len(image.History) : ~image.History[i].EmptyLayer})

HistoryMismatchIgnored(oi, di, baseImageHistoryLen) == FALSE
\* the confidence check of the history against the diff IDs
HistoryMismatch(oi, di, baseImageHistoryLen) ==
    /\ baseImageHistoryLen # 0
    /\ \/ Len(oi.DiffIDs) # ExpectedOCIDiffIDs(oi)
       \/ Len(di.DiffIDs) # ExpectedDockerDiffIDs(di)

NoSrc ==
    [config |-> NoDigest, configDigest |-> NoDigest, manifest |-> NoDigest,
     manifestType |-> "", blobLayers |-> {}]

\* the rest of NewImageSource, after the loop over the layers
Finish ==
    LET baseImageHistoryLen == Len(oimage.History)
        ofinal == IF ref.omitHistory THEN oimage
                  ELSE [oimage EXCEPT !.History = BuiltHistory(@)]
        dfinal == IF ref.omitHistory THEN dimage
                  ELSE [dimage EXCEPT !.History = BuiltHistory(@)]
        mismatch == ~ref.omitHistory /\ HistoryMismatch(ofinal, dfinal, baseImageHistoryLen)
        oconfig == Marshal(ofinal)
        dconfig == Marshal(dfinal)
        om == [omanifest EXCEPT !.Config = Descriptor("image.config.v1+json",
                                                     DigestOf(oconfig), SizeOf(oconfig))]
        dm == [dmanifest EXCEPT !.Config = Descriptor("container.image.v1+json",
                                                     DigestOf(dconfig), SizeOf(dconfig))]
        config == IF ref.manifestType = "oci" THEN oconfig ELSE dconfig
    IN  /\ pc = "loop"
        /\ idx > Len(layers)
        /\ UNCHANGED <<OCIv1, Docker, calls, in, rootfs, ref, layers, parentLayerIDs, apiLayerIDs,
                       idx, blobLayers, extraDiff, io, clock, prev, blob>>
        /\ oimage' = ofinal
        /\ dimage' = dfinal
        /\ IF mismatch
           THEN /\ Fail("internal error: history lists a number of non-empty layers, but we have another number of layers on disk")
                /\ UNCHANGED <<omanifest, dmanifest, src>>
           ELSE /\ omanifest' = om
                /\ dmanifest' = dm
                /\ src' = [config |-> config,
                           configDigest |-> DigestOf(config),
                           manifest |-> IF ref.manifestType = "oci" THEN Marshal(om)
                                        ELSE Marshal(dm),
                           manifestType |-> ref.manifestType,
                           blobLayers |-> blobLayers]
                /\ pc' = "done"
                /\ UNCHANGED <<err, staging>>

-----------------------------------------------------------------------------
(* image.go: the image source.                                             *)

NoBlob == [asked |-> NoDigest, err |-> "", content |-> NoDigest, size |-> -1]

\* GetBlob: the configuration, a layer of storage diffed again, or a file
\* of the blob directory; no blob cache directory is set
GetBlobResult(d) ==
    IF d = src.configDigest
    THEN [asked |-> d, err |-> "", content |-> src.config, size |-> SizeOf(src.config)]
    ELSE IF \E b \in src.blobLayers : b.digest = d
    THEN LET b == CHOOSE b \in src.blobLayers : b.digest = d
         IN  IF b.Size = -1
             THEN [asked |-> d, err |-> "opening layer blob", content |-> NoDigest, size |-> -1]
             ELSE [asked |-> d, err |-> "", content |-> StoreDiff(b.ID), size |-> b.Size]
    ELSE IF staging.exists /\ \E f \in staging.files : f.name = d
    THEN LET f == CHOOSE f \in staging.files : f.name = d
         IN  [asked |-> d, err |-> "", content |-> f.content, size |-> SizeOf(f.content)]
    ELSE [asked |-> d, err |-> "opening layer blob", content |-> NoDigest, size |-> -1]

\* the manifest the source hands out, decoded
EmittedManifest == Unmarshal(src.manifest)

SourceStep ==
    /\ pc \in {"done", "closed"}
    /\ UNCHANGED <<OCIv1, Docker, calls, in, rootfs, ref, layers, parentLayerIDs, apiLayerIDs, idx,
                   omanifest, dmanifest, oimage, dimage, blobLayers, extraDiff, src, err,
                   io, clock, prev>>

\* GetBlob of the configuration
GetConfigBlob ==
    /\ SourceStep
    /\ blob' = GetBlobResult(src.configDigest)
    /\ UNCHANGED <<pc, staging>>

\* GetBlob of a layer of the manifest
GetLayerBlob ==
    /\ SourceStep
    /\ \E k \in 1..Len(EmittedManifest.Layers) :
          blob' = GetBlobResult(EmittedManifest.Layers[k].Digest)
    /\ UNCHANGED <<pc, staging>>

\* GetBlob of a digest the manifest does not list
GetUnknownBlob ==
    /\ SourceStep
    /\ blob' = GetBlobResult(NoDigest)
    /\ UNCHANGED <<pc, staging>>

\* Close
Close ==
    /\ SourceStep
    /\ pc = "done"
    /\ pc' = "closed"
    /\ staging' = [exists |-> FALSE, files |-> {}, tmp |-> FALSE]
    /\ UNCHANGED blob

-----------------------------------------------------------------------------
(* The specifications.                                                     *)

NoExtraDiff == [name |-> "", digest |-> NoDigest, file |-> NoDigest]
NoPrev == [set |-> FALSE, manifest |-> NoDigest, config |-> NoDigest]
BaseEnv == << <<"A", "=", "x">> >>

\* no rootfs is being extracted
NoRootfs ==
    [cons |-> "idle", prod |-> "none", mounted |-> FALSE, offered |-> FALSE,
     rclosed |-> FALSE, wclosed |-> FALSE, chunks |-> 0, perr |-> "", closes |-> FALSE,
     chanLen |-> 0, chanVal |-> "", chanClosed |-> FALSE, sends |-> 0, recvs |-> 0,
     copyErr |-> "", unmountErr |-> FALSE, err |-> "", result |-> ""]

\* a container made from a base image and not committed yet
Fresh(input) ==
    /\ in = input
    /\ rootfs = NoRootfs
    /\ OCIv1 = OCIv1Of(BaseEnv, BaseHistory(input.baseHistory, Len(input.parents)),
                       Len(input.parents))
    /\ Docker = DockerOf(BaseEnv, BaseHistory(input.baseHistory, Len(input.parents)),
                         Len(input.parents))
    /\ calls = 0
    /\ pc = "start"
    /\ ref = NoRef
    /\ layers = <<>>
    /\ parentLayerIDs = {}
    /\ apiLayerIDs = {}
    /\ idx = 0
    /\ omanifest = [Layers |-> <<>>, Config |-> Descriptor("image.config.v1+json", NoDigest, 0)]
    /\ dmanifest = [Layers |-> <<>>, Config |-> Descriptor("container.image.v1+json", NoDigest, 0)]
    /\ oimage = OCIv1Of(<<>>, <<>>, <<>>)
    /\ dimage = DockerOf(<<>>, <<>>, <<>>)
    /\ blobLayers = {}
    /\ staging = [exists |-> FALSE, files |-> {}, tmp |-> FALSE]
    /\ extraDiff = NoExtraDiff
    /\ src = NoSrc
    /\ err = ""
    /\ io = [diffs |-> 0, mounts |-> 0, unmounts |-> 0, blobReads |-> 0, creates |-> 0]
    /\ clock = 1
    /\ prev = NoPrev
    /\ blob = NoBlob

Init == \E input \in Inputs : Fresh(input)

Next ==
    \/ MakeContainerImageRef
    \/ PlanLayers
    \/ MountContainer
    \/ LayerStep
    \/ Finish
    \/ GetConfigBlob
    \/ GetLayerBlob
    \/ GetUnknownBlob
    \/ Close

Spec == Init /\ [][Next]_vars

\* the setters of config.go on the Builder of a fresh container
InitConfig == Fresh(Plain)

NextConfig ==
    \/ \E w \in Words : SetOS(w)
    \/ \E w \in Words : SetArchitecture(w)
    \/ \E w \in Words : SetMaintainer(w)
    \/ \E w \in Words : SetUser(w)
    \/ \E w \in Words : SetWorkDir(w)
    \/ \E w \in Words : SetCmd(<<w>>)
    \/ \E w \in Words : SetEntrypoint(<<w>>)
    \/ \E k \in EnvKeys, v \in EnvValues : SetEnv(k, v)
    \/ \E k \in EnvKeys : UnsetEnv(k)
    \/ ClearEnv
    \/ \E w \in Words : SetLabel(w, w)
    \/ \E w \in Words : UnsetLabel(w)
    \/ ClearLabels
    \/ \E w \in Words : SetPort(w)
    \/ \E w \in Words : UnsetPort(w)
    \/ ClearPorts
    \/ \E w \in Words : AddVolume(w)
    \/ \E w \in Words : RemoveVolume(w)
    \/ ClearVolumes
    \/ \E w \in Words : SetStopSignal(w)
    \/ \E w \in Words : SetHostname(w)
    \/ \E w \in Words : SetDomainname(w)
    \/ \E w \in Words : SetComment(w)
    \/ \E w \in Words : SetOnBuild(w)
    \/ ClearOnBuild
    \/ \E w \in Words : SetShell(<<w>>)

SpecConfig == InitConfig /\ [][NextConfig]_vars

\* commits with HistoryTimestamp set
TimestampInputs ==
    {[Plain EXCEPT !.timestamp = HistoryTime, !.squash = m[1], !.convert = m[2],
                   !.emptyLayer = el, !.compression = c, !.extra = x,
                   !.parents = KnownParents(n), !.bPre = pl] :
        m \in Modes, el \in BOOLEAN, c \in {"Uncompressed", "Gzip"}, x \in 0..MaxExtra,
        n \in 0..MaxParents, pl \in {<<>>, <<LinkedBlob>>}}

InitTwice == \E input \in TimestampInputs : Fresh(input)

\* the caller keeps the manifest and the configuration of the first commit,
\* closes its source and, later, commits the same container with the same
\* options once more
Recommit ==
    /\ pc = "done"
    /\ ~prev.set
    /\ prev' = [set |-> TRUE, manifest |-> src.manifest, config |-> src.config]
    /\ clock' = clock + 1
    /\ pc' = "start"
    /\ ref' = NoRef
    /\ layers' = <<>>
    /\ parentLayerIDs' = {}
    /\ apiLayerIDs' = {}
    /\ idx' = 0
    /\ omanifest' = [Layers |-> <<>>, Config |-> Descriptor("image.config.v1+json", NoDigest, 0)]
    /\ dmanifest' = [Layers |-> <<>>, Config |-> Descriptor("container.image.v1+json", NoDigest, 0)]
    /\ oimage' = OCIv1Of(<<>>, <<>>, <<>>)
    /\ dimage' = DockerOf(<<>>, <<>>, <<>>)
    /\ blobLayers' = {}
    /\ staging' = [exists |-> FALSE, files |-> {}, tmp |-> FALSE]
    /\ extraDiff' = NoExtraDiff
    /\ src' = NoSrc
    /\ err' = ""
    /\ io' = [diffs |-> 0, mounts |-> 0, unmounts |-> 0, blobReads |-> 0, creates |-> 0]
    /\ UNCHANGED <<OCIv1, Docker, calls, in, rootfs, blob>>

NextTwice ==
    \/ MakeContainerImageRef
    \/ PlanLayers
    \/ MountContainer
    \/ LayerStep
    \/ Finish
    \/ Recommit

SpecTwice == InitTwice /\ [][NextTwice]_vars

-----------------------------------------------------------------------------
(* image.go: extractRootfs and the turn of the loop that reads from it,    *)
(* step by step.  The goroutine of extractRootfs (the producer) writes the *)
(* extra image content and the rootfs to an io.Pipe and reports on a       *)
(* channel; NewImageSource (the consumer) copies from the pipe into the    *)
(* file of the layer.  A Write to the pipe ends when the reader has taken  *)
(* what was written or has been closed.                                    *)

\* the number of Writes copier.Get needs for the rootfs
RootChunks == 2

\* errChan := make(chan error, 1)
ErrChanCapacity == 1

\* a send on a channel without a buffer waits for a receiver, and the
\* consumer receives only after the goroutine has sent
UnbufferedChanHasRoom(len) == FALSE

\* a send on errChan goes on when the buffer has room for the value
ChanHasRoom(len) == len < ErrChanCapacity

\* everything but the rootfs being extracted
streamFrame == <<OCIv1, Docker, calls, in, pc, ref, layers, parentLayerIDs, apiLayerIDs,
                 idx, omanifest, dmanifest, oimage, dimage, blobLayers, staging,
                 extraDiff, src, err, io, clock, prev, blob>>

\* squashed commits of a container, with and without extra image content,
\* and what can fail while the rootfs is extracted and stored
StreamInputs ==
    {[Plain EXCEPT !.squash = TRUE, !.extra = x, !.compression = c, !.fault = f] :
        x \in 0..1, c \in {"Uncompressed", "Gzip"},
        f \in {"none", "mount", "extramake", "extraopen", "extraread", "get", "create",
               "compress", "copy", "closewriter", "closefile", "unmount", "rename"}}

\* extractRootfs: the container is mounted, the pipe and the channel are
\* made, the goroutine is started and the reader is returned
ExtractRootfs ==
    /\ rootfs.cons = "idle"
    /\ UNCHANGED streamFrame
    /\ IF in.fault = "mount"
       THEN rootfs' = [rootfs EXCEPT !.cons = "returned", !.result = "error",
                                     !.err = "mounting container"]
       ELSE rootfs' = [rootfs EXCEPT !.cons = "create", !.mounted = TRUE,
                                     !.prod = IF in.extra > 0 THEN "make" ELSE "get"]

\* the close function of the reader extractRootfs returns: the read end of
\* the pipe is closed and the container is unmounted; no caller looks at
\* the error it returns
ReadCloserClose(r) ==
    [r EXCEPT !.rclosed = TRUE, !.mounted = FALSE,
              !.unmountErr = (in.fault = "unmount")]

\* NewImageSource returns the error e
StreamFail(r, e) == [r EXCEPT !.cons = "returned", !.result = "error", !.err = e]

\* os.OpenFile of the file "layer"
OpenLayerFile ==
    /\ rootfs.cons = "create"
    /\ UNCHANGED streamFrame
    /\ rootfs' = IF in.fault = "create"
                 THEN StreamFail(ReadCloserClose(rootfs), "opening file for layer")
                 ELSE [rootfs EXCEPT !.cons = "compress"]

\* archive.CompressStream and the tar filter
MakeWriter ==
    /\ rootfs.cons = "compress"
    /\ UNCHANGED streamFrame
    /\ rootfs' = IF in.fault = "compress"
                 THEN StreamFail(ReadCloserClose(rootfs), "compressing layer")
                 ELSE [rootfs EXCEPT !.cons = "copy"]

\* io.Copy(writer, rc), one Read: what the producer is writing is taken and
\* written on, which can fail; when the write end is closed the copy ends
CopyRead ==
    /\ rootfs.cons = "copy"
    /\ UNCHANGED streamFrame
    /\ \/ /\ rootfs.offered
          /\ \E fails \in {FALSE, in.fault = "copy"} :
                rootfs' = [rootfs EXCEPT
                             !.offered = FALSE,
                             !.copyErr = IF fails THEN "storing layer to file" ELSE "",
                             !.err = IF fails THEN "storing layer to file" ELSE "",
                             !.cons = IF fails THEN "closewriter" ELSE "copy"]
       \/ /\ ~rootfs.offered
          /\ rootfs.wclosed
          /\ rootfs' = [rootfs EXCEPT !.cons = "closewriter"]

\* writeCloser.Close()
CloseWriter ==
    /\ rootfs.cons = "closewriter"
    /\ UNCHANGED streamFrame
    /\ rootfs' = IF in.fault = "closewriter"
                 THEN StreamFail(ReadCloserClose(rootfs), "storing layer to file on pipe close")
                 ELSE [rootfs EXCEPT !.cons = "closefile"]

\* layerFile.Close()
CloseLayerFile ==
    /\ rootfs.cons = "closefile"
    /\ UNCHANGED streamFrame
    /\ rootfs' = IF in.fault = "closefile"
                 THEN StreamFail(ReadCloserClose(rootfs), "storing layer to file on file close")
                 ELSE [rootfs EXCEPT !.cons = "close"]

\* rc.Close() after the copy
CloseReader ==
    /\ rootfs.cons = "close"
    /\ UNCHANGED streamFrame
    /\ rootfs' = [ReadCloserClose(rootfs) EXCEPT !.cons = "receive"]

\* err = <-errChan: the value the channel holds, or nil from the closed
\* channel; it takes the place of the error of the copy
ReceiveErr ==
    /\ rootfs.cons = "receive"
    /\ rootfs.chanLen > 0 \/ rootfs.chanClosed
    /\ UNCHANGED streamFrame
    /\ LET got == IF rootfs.chanLen > 0 THEN rootfs.chanVal ELSE ""
           r == [rootfs EXCEPT !.chanLen = IF @ > 0 THEN @ - 1 ELSE @,
                               !.recvs = @ + 1, !.err = got]
       IN  rootfs' = IF got # "" THEN StreamFail(r, "extracting container rootfs")
                     ELSE [r EXCEPT !.cons = "check"]

\* the rest of the turn: the error of the copy if err still holds one, the
\* check of the size when nothing is compressed, os.Rename.  What the two
\* sizes are after a copy that failed is not known
StoreLayerFile ==
    /\ rootfs.cons = "check"
    /\ UNCHANGED streamFrame
    /\ \E mismatch \in {FALSE, rootfs.copyErr # "" /\ in.compression = "Uncompressed"} :
          rootfs' = IF rootfs.err # "" THEN StreamFail(rootfs, "storing layer to file")
                    ELSE IF mismatch THEN StreamFail(rootfs, "inconsistent layer size")
                    ELSE IF in.fault = "rename" THEN StreamFail(rootfs, "renaming layer file")
                    ELSE [rootfs EXCEPT !.cons = "returned", !.result = "source"]

\* the goroutine is about to send e; it closes the write end after that
\* only when copier.Get was called
ToSend(r, e, closes) == [r EXCEPT !.prod = "send", !.perr = e, !.closes = closes]

\* makeExtraImageContentDiff(false) and os.Open(filename)
MakeExtraContent ==
    /\ rootfs.prod = "make"
    /\ UNCHANGED streamFrame
    /\ rootfs' = IF in.fault = "extramake"
                 THEN ToSend(rootfs, "making extra image content", FALSE)
                 ELSE IF in.fault = "extraopen"
                 THEN ToSend(rootfs, "opening extra image content", FALSE)
                 ELSE [rootfs EXCEPT !.prod = "xcopy"]

\* io.Copy(pipeWriter, file): the file is read and written to the pipe
CopyExtraContent ==
    /\ rootfs.prod = "xcopy"
    /\ UNCHANGED streamFrame
    /\ rootfs' = IF in.fault = "extraread"
                 THEN ToSend(rootfs, "reading extra image content", FALSE)
                 ELSE IF rootfs.rclosed
                 THEN ToSend(rootfs, "io: read/write on closed pipe", FALSE)
                 ELSE [rootfs EXCEPT !.prod = "xwrite", !.offered = TRUE]

\* the Write of the extra image content ends
ExtraContentWritten ==
    /\ rootfs.prod = "xwrite"
    /\ ~rootfs.offered \/ rootfs.rclosed
    /\ UNCHANGED streamFrame
    /\ rootfs' = IF rootfs.offered
                 THEN ToSend([rootfs EXCEPT !.offered = FALSE],
                             "io: read/write on closed pipe", FALSE)
                 ELSE [rootfs EXCEPT !.prod = "get"]

\* copier.Get reads the mounted rootfs and starts a Write to the pipe, or
\* returns: with an error of its own, with the error of a Write to a
\* closed pipe, or with nil when all was written
GetRootfs ==
    /\ rootfs.prod = "get"
    /\ UNCHANGED streamFrame
    /\ rootfs' = IF in.fault = "get"
                 THEN ToSend(rootfs, "copier.Get", TRUE)
                 ELSE IF rootfs.chunks = RootChunks
                 THEN ToSend(rootfs, "", TRUE)
                 ELSE IF rootfs.rclosed
                 THEN ToSend(rootfs, "io: read/write on closed pipe", TRUE)
                 ELSE [rootfs EXCEPT !.prod = "write", !.offered = TRUE]

\* a Write of copier.Get ends
RootfsWritten ==
    /\ rootfs.prod = "write"
    /\ ~rootfs.offered \/ rootfs.rclosed
    /\ UNCHANGED streamFrame
    /\ rootfs' = IF rootfs.offered
                 THEN ToSend([rootfs EXCEPT !.offered = FALSE],
                             "io: read/write on closed pipe", TRUE)
                 ELSE [rootfs EXCEPT !.prod = "get", !.chunks = @ + 1]

\* errChan <- err: the send waits while the channel is full
SendErr ==
    /\ rootfs.prod = "send"
    /\ ChanHasRoom(rootfs.chanLen)
    /\ UNCHANGED streamFrame
    /\ rootfs' = [rootfs EXCEPT !.chanLen = @ + 1, !.chanVal = rootfs.perr,
                                !.sends = @ + 1,
                                !.prod = IF rootfs.closes THEN "closepipe" ELSE "exit"]

\* pipeWriter.Close()
ClosePipeWriter ==
    /\ rootfs.prod = "closepipe"
    /\ UNCHANGED streamFrame
    /\ rootfs' = [rootfs EXCEPT !.wclosed = TRUE, !.prod = "exit"]

\* the goroutine returns: the deferred close(errChan)
CloseErrChan ==
    /\ rootfs.prod = "exit"
    /\ UNCHANGED streamFrame
    /\ rootfs' = [rootfs EXCEPT !.chanClosed = TRUE, !.prod = "exited"]

InitStream == \E input \in StreamInputs : Fresh(input)

NextStream ==
    \/ ExtractRootfs
    \/ OpenLayerFile
    \/ MakeWriter
    \/ CopyRead
    \/ CloseWriter
    \/ CloseLayerFile
    \/ CloseReader
    \/ ReceiveErr
    \/ StoreLayerFile
    \/ MakeExtraContent
    \/ CopyExtraContent
    \/ ExtraContentWritten
    \/ GetRootfs
    \/ RootfsWritten
    \/ SendErr
    \/ ClosePipeWriter
    \/ CloseErrChan

SpecStream == InitStream /\ [][NextStream]_vars

\* the Go scheduler lets every goroutine that can take a step take one
SpecStreamFair == SpecStream /\ WF_vars(NextStream)

-----------------------------------------------------------------------------
(* What the properties below speak of.                                     *)

\* a source was returned (and may have been closed since)
Committed == pc \in {"done", "closed"}

\* the number of entries of a history that stand for a layer
NonEmptyEntries(history) == Cardinality({i \in 1..Len(history) : ~history[i].EmptyLayer})

\* the number of entries the base image's history gives the new image
BaseHistoryLen ==
    IF ref.convert \/ ref.squash \/ ref.omitHistory THEN 0
    ELSE Len(Unmarshal(ref.oconfig).History)

\* the place of this commit's own entry in the history of the new image
CommitEntry == BaseHistoryLen + Len(ref.preEmptyLayers) + Len(ref.preLayers) + 1

\* the layers of the list that are listed as storage has them
ReusedLayers ==
    {k \in 1..Len(layers) :
        /\ ~in.squash /\ ~in.convert
        /\ \E n \in 1..Len(in.parents) : layers[k] = LayerName(n) /\ in.parents[n].known}

\* the layers of the list that are given no descriptor
SkippedLayers ==
    {k \in 1..Len(layers) :
        in.emptyLayer /\ ~in.squash /\ ~in.convert /\ layers[k] = TopLayerID}

\* the place in the manifests of the descriptor of the k-th layer of the list
DescriptorOf(k) == k - Cardinality({j \in SkippedLayers : j < k})

UnsupportedCompressions == {"Bzip2", "Xz", "Zstd"}

\* the places of the list that hold a parent layer, a prepended layer token
ParentPlaces == {k \in 1..Len(layers) : \E n \in 1..Len(in.parents) : layers[k] = LayerName(n)}
PrependedPlaces == {k \in 1..Len(layers) : layers[k] \in Range(TokensOf(ref.preLayers))}

-----------------------------------------------------------------------------
(* C1 .. C10.                                                              *)

\* C1: when a commit returns a source, history is not omitted and the base
\* image gave at least one history entry, then in the OCI configuration, in
\* the Docker configuration and in the configuration the source hands out
\* the number of diff IDs is the number of history entries with
\* EmptyLayer = false.
C1_DiffIDsMatchHistory ==
    (Committed /\ ~ref.omitHistory /\ BaseHistoryLen > 0) =>
        /\ Len(oimage.DiffIDs) = NonEmptyEntries(oimage.History)
        /\ Len(dimage.DiffIDs) = NonEmptyEntries(dimage.History)
        /\ Len(Unmarshal(src.config).DiffIDs) = NonEmptyEntries(Unmarshal(src.config).History)

\* a commit with an empty top layer, extra content, empty and linked layers
\* before and after, on a base image that has history
C1_Witness ==
    /\ pc = "done" /\ ~ref.omitHistory /\ BaseHistoryLen > 0
    /\ ref.emptyLayer /\ extraDiff.name # ""
    /\ Len(ref.preEmptyLayers) > 0 /\ Len(ref.postEmptyLayers) > 0
    /\ Len(ref.preLayers) > 0 /\ Len(ref.postLayers) > 0

\* C2: after any sequence of setters every mirrored field has the same
\* value in the OCI document and in the Docker document, the Env lists
\* included.
C2_MirroredFieldsAgree ==
    /\ OCIv1.OS = Docker.OS
    /\ OCIv1.Architecture = Docker.Architecture
    /\ OCIv1.Author = Docker.Author
    /\ OCIv1.Config.User = Docker.ContainerConfig.User
    /\ OCIv1.Config.WorkingDir = Docker.ContainerConfig.WorkingDir
    /\ OCIv1.Config.Cmd = Docker.ContainerConfig.Cmd
    /\ OCIv1.Config.Entrypoint = Docker.ContainerConfig.Entrypoint
    /\ OCIv1.Config.Env = Docker.ContainerConfig.Env
    /\ OCIv1.Config.Labels.kv = Docker.ContainerConfig.Labels.kv
    /\ OCIv1.Config.ExposedPorts.kv = Docker.ContainerConfig.ExposedPorts.kv
    /\ OCIv1.Config.Volumes.kv = Docker.ContainerConfig.Volumes.kv
    /\ OCIv1.Config.StopSignal = Docker.ContainerConfig.StopSignal

\* C3: after a commit returned a source and before Close, GetBlob of the
\* digest of the configuration descriptor or of a layer descriptor of the
\* manifest succeeds and returns content whose digest is the digest asked
\* for.
C3_GetBlobReturnsTheDigest ==
    LET m == EmittedManifest
        listed == \/ blob.asked = m.Config.Digest
                  \/ \E k \in 1..Len(m.Layers) : blob.asked = m.Layers[k].Digest
    IN  (pc = "done" /\ blob # NoBlob /\ listed) =>
            /\ blob.err = ""
            /\ DigestOf(blob.content) = blob.asked
            /\ blob.size = SizeOf(blob.content)

\* a layer listed as storage has it and a layer that was written to a file
\* have the same digest, and GetBlob was asked for it
C3_Witness ==
    /\ pc = "done" /\ blob # NoBlob /\ blob.err = ""
    /\ \E b \in src.blobLayers : b.digest = blob.asked
    /\ \E f \in staging.files : f.name = blob.asked
    /\ Cardinality({k \in 1..Len(EmittedManifest.Layers) :
                       EmittedManifest.Layers[k].Digest = blob.asked}) > 1

\* C4 as stated: the descriptor of every layer that is listed as storage
\* has it carries storage's UncompressedDigest in both manifests, and after
\* the commit no file of the blob directory is named by that digest.
C4_NoFileNamedByReusedDigest ==
    pc = "done" =>
        \A k \in ReusedLayers :
            LET d == StoreLayer(layers[k]).UncompressedDigest
            IN  /\ omanifest.Layers[DescriptorOf(k)].Digest = d
                /\ dmanifest.Layers[DescriptorOf(k)].Digest = d
                /\ ~\E f \in staging.files : f.name = d

\* C4, amended: the descriptor of every layer that is listed as storage has
\* it carries storage's UncompressedDigest in both manifests; no file is
\* written for such a layer (the commit creates one file for each of the
\* other layers that has a descriptor), and a file of the blob directory is
\* named by that digest only when one of those other layers has that digest.
C4_ReusedLayersAreNotStaged ==
    pc = "done" =>
        /\ \A k \in ReusedLayers :
            LET d == StoreLayer(layers[k]).UncompressedDigest
            IN  /\ omanifest.Layers[DescriptorOf(k)].Digest = d
                /\ dmanifest.Layers[DescriptorOf(k)].Digest = d
                /\ \A f \in staging.files :
                      f.name = d =>
                          \E j \in (1..Len(layers)) \ (ReusedLayers \cup SkippedLayers) :
                              omanifest.Layers[DescriptorOf(j)].Digest = d
        /\ io.creates = Len(layers) - Cardinality(ReusedLayers \cup SkippedLayers)

\* a commit that listed a layer as storage has it and wrote another layer
\* to a file
C4_Witness ==
    /\ pc = "done" /\ ReusedLayers # {} /\ staging.files # {}
    /\ in.compression = "Gzip"

\* C5: two commits of the same container with the same options and
\* HistoryTimestamp set hand out the same manifest and the same
\* configuration.
C5_CommitsAreReproducible ==
    (pc = "done" /\ prev.set) =>
        /\ src.manifest = prev.manifest
        /\ src.config = prev.config

\* C6 as stated: a commit asked for bzip2, xz or zstd, with none of the
\* outside world's failures and with linked layers that are well formed,
\* fails with the media type error, and when it has failed no Diff was
\* asked of storage, no container was mounted, no blob of a linked layer
\* was read and no layer file was created.
C6_FailsBeforeAnyLayerIO ==
    (/\ in.compression \in UnsupportedCompressions
     /\ in.fault = "none"
     /\ \A l \in Range(in.bPre \o in.optPre \o in.optPost \o in.bPost) :
            l.emptyLayer = (l.blobPath = "")) =>
        /\ ~Committed
        /\ pc = "failed" =>
              /\ err \in MediaTypeErrors
              /\ io.diffs = 0 /\ io.mounts = 0 /\ io.blobReads = 0 /\ io.creates = 0

\* C6, amended: a commit asked for bzip2, xz or zstd never returns a
\* source; at no time has it asked a Diff of storage, mounted the container
\* or created a layer file; once the list of layers is made it fails with
\* the media type error unless looking a layer up fails first.  The blobs
\* of the linked layers that have one were read and digested before that,
\* when the reference was made.
C6_FailsBeforeDiffMountAndFile ==
    in.compression \in UnsupportedCompressions =>
        /\ ~Committed
        /\ io.diffs = 0 /\ io.mounts = 0 /\ io.creates = 0 /\ staging.files = {}
        /\ (pc = "loop" /\ idx > 1) => layers[idx - 1] \in parentLayerIDs
        /\ (pc = "failed" /\ idx >= 1 /\ in.fault # "lookup") =>
              /\ err \in MediaTypeErrors
              /\ io.blobReads = Len(ref.preLayers) + Len(ref.postLayers)

\* a commit asked for an unsupported compression failed with the media type
\* error after the blob of a linked layer was read
C6_Witness ==
    /\ in.compression \in UnsupportedCompressions
    /\ pc = "failed" /\ err \in MediaTypeErrors
    /\ io.blobReads > 0

\* C7: with EmptyLayer set and neither Squash nor Convert, a commit that
\* returns a source gives the top layer no descriptor and no diff ID: both
\* manifests and both lists of diff IDs have as many entries as the list of
\* layers has elements other than the top layer, and, history not being
\* omitted, the commit's own history entry has EmptyLayer = true.
C7_EmptyLayerSkipsTopLayer ==
    (Committed /\ in.emptyLayer /\ ~in.squash /\ ~in.convert) =>
        LET others == Cardinality({k \in 1..Len(layers) : layers[k] # TopLayerID})
        IN  /\ Len(layers) = others + 1
            /\ Len(omanifest.Layers) = others
            /\ Len(dmanifest.Layers) = others
            /\ Len(EmittedManifest.Layers) = others
            /\ Len(oimage.DiffIDs) = others
            /\ Len(dimage.DiffIDs) = others
            /\ ~ref.omitHistory =>
                  /\ oimage.History[CommitEntry].EmptyLayer
                  /\ oimage.History[CommitEntry].CreatedBy = ref.createdBy
                  /\ dimage.History[CommitEntry].EmptyLayer
                  /\ dimage.History[CommitEntry].CreatedBy = ref.createdBy

\* a commit with EmptyLayer set of a container that has parent layers and
\* linked layers returned a source with history
C7_Witness ==
    /\ pc = "done" /\ in.emptyLayer /\ ~in.squash /\ ~in.convert
    /\ ~ref.omitHistory /\ parentLayerIDs # {} /\ apiLayerIDs # {}

\* C8: a commit with Squash or Convert that returns a source emits one
\* layer descriptor and one diff ID in both formats, and its history, when
\* not omitted, has the commit's entry and no ADD entry for extra content.
C8_SingleLayerOutput ==
    (Committed /\ (in.squash \/ in.convert)) =>
        /\ Len(omanifest.Layers) = 1
        /\ Len(dmanifest.Layers) = 1
        /\ Len(oimage.DiffIDs) = 1
        /\ Len(dimage.DiffIDs) = 1
        /\ ~ref.omitHistory =>
              /\ oimage.History[CommitEntry].CreatedBy = ref.createdBy
              /\ \A i \in 1..Len(oimage.History) : oimage.History[i].CreatedBy # "ADD dir"

\* C9 as stated: with a prepended linked layer and a parent layer, and
\* neither Squash nor Convert, the list of layers has the parent layers
\* oldest first and every prepended layer token before every parent layer.
C9_PrependedBeforeParents ==
    (layers # <<>> /\ ~in.squash /\ ~in.convert /\ Len(ref.preLayers) > 0
        /\ Len(in.parents) > 0) =>
        /\ \A a, b \in ParentPlaces :
              a < b => ParentIndex(layers[a]) < ParentIndex(layers[b])
        /\ \A t \in PrependedPlaces, q \in ParentPlaces : t < q

\* C9, amended: with a prepended linked layer and a parent layer, and
\* neither Squash nor Convert, the list of layers starts with all the
\* parent layers, oldest first; the prepended layer tokens follow them in
\* their order, and the top layer follows the last token.
C9_ParentsBeforePrepended ==
    (layers # <<>> /\ ~in.squash /\ ~in.convert /\ Len(ref.preLayers) > 0
        /\ Len(in.parents) > 0) =>
        LET n == Len(in.parents)
            t == Len(ref.preLayers)
        IN  /\ Len(layers) >= n + t + 1
            /\ \A k \in 1..n : layers[k] = LayerName(k)
            /\ \A k \in 1..t : layers[n + k] = ref.preLayers[k].layerID
            /\ layers[n + t + 1] = TopLayerID
            /\ parentLayerIDs = {LayerName(k) : k \in 1..n}

\* the list of layers of a container with two parent layers and a
\* prepended linked layer
C9_Witness ==
    /\ layers # <<>> /\ ~in.squash /\ ~in.convert
    /\ Len(ref.preLayers) > 0 /\ Len(in.parents) > 1

\* C10: with Squash or Convert the list of layers is the prepended layer
\* tokens, the top layer and the appended layer tokens: no parent layer is
\* in it or among the parent layer ids, and no synthesized layer is in it
\* even when there is extra image content.
C10_SingleLayerList ==
    (layers # <<>> /\ (in.squash \/ in.convert)) =>
        /\ layers = TokensOf(ref.preLayers) \o <<TopLayerID>> \o TokensOf(ref.postLayers)
        /\ parentLayerIDs = {}
        /\ ParentPlaces = {}
        /\ SynthesizedLayerID \notin Range(layers)

\* the list of layers of a squashed commit of a container that has a parent
\* layer, a linked layer and extra image content
C10_Witness ==
    /\ layers # <<>> /\ in.squash
    /\ in.extra > 0 /\ Len(in.parents) > 0 /\ Len(ref.preLayers) > 0

-----------------------------------------------------------------------------
(* C11 .. C20.                                                             *)

\* the places of the list that hold the synthesized layer, an appended
\* layer token
SynthesizedPlaces == {k \in 1..Len(layers) : layers[k] = SynthesizedLayerID}
AppendedPlaces == {k \in 1..Len(layers) : layers[k] \in Range(TokensOf(ref.postLayers))}

\* C11: the synthesized layer is in the list of layers at most once; it is
\* in it exactly when there is extra image content and neither Squash nor
\* Convert is set, and then it directly follows the top layer and comes
\* before every appended layer token.
C11_SynthesizedLayerPlace ==
    layers # <<>> =>
        /\ Cardinality(SynthesizedPlaces) <= 1
        /\ (SynthesizedPlaces # {}) <=> (in.extra > 0 /\ ~in.squash /\ ~in.convert)
        /\ \A k \in SynthesizedPlaces :
              /\ k > 1
              /\ layers[k - 1] = TopLayerID
              /\ \A a \in AppendedPlaces : k < a

\* the list of layers of a commit with extra image content, a parent layer
\* and an appended linked layer
C11_Witness ==
    /\ SynthesizedPlaces # {} /\ AppendedPlaces # {} /\ ParentPlaces # {}

\* C12: when NewImageSource has returned an error the blob directory does
\* not exist, whichever step failed; after the call it exists only when a
\* source was returned, with the files of the layers that were written, and
\* the Close of that source removes it.
C12_StagingRemovedUnlessSource ==
    /\ pc = "failed" => (~staging.exists /\ staging.files = {} /\ src = NoSrc)
    /\ pc = "done" => (staging.exists /\ src # NoSrc)
    /\ pc = "closed" => (~staging.exists /\ staging.files = {})
    /\ staging.exists => pc \in {"loop", "mounted", "done"}

\* NewImageSource failed after it had written the file of a layer to the
\* blob directory
C12_Witness ==
    /\ pc = "failed" /\ idx >= 1 /\ io.creates > 0

\* C13: a commit with Squash or Convert never has unmounted the container
\* more often than it has mounted it, has at most one mount open at a time,
\* and when it has returned, with a source or with an error, it has
\* unmounted the container as often as it has mounted it.
C13_MountsAreUnmounted ==
    (in.squash \/ in.convert) =>
        /\ io.unmounts <= io.mounts
        /\ io.mounts <= io.unmounts + 1
        /\ (io.mounts = io.unmounts + 1) <=> (pc = "mounted")
        /\ pc \in {"done", "closed", "failed"} => io.unmounts = io.mounts

\* a commit of the whole container returned an error after it had mounted
\* the container and could not create the file of the layer
C13_Witness ==
    /\ (in.squash \/ in.convert) /\ pc = "failed" /\ io.mounts > 0
    /\ err = "opening file for layer"

\* C14: a commit does not change the working container: the OCI and the
\* Docker configuration of the Builder, both Env lists included, are what
\* they were before the commit, whatever the options, UnsetEnvs included.
C14_CommitKeepsBuilder ==
    LET history == BaseHistory(in.baseHistory, Len(in.parents))
    IN  /\ OCIv1 = OCIv1Of(BaseEnv, history, Len(in.parents))
        /\ Docker = DockerOf(BaseEnv, history, Len(in.parents))

\* C15 as stated: after any sequence of setters Docker.ContainerConfig has
\* the value it had when the configuration was loaded.
C15_ContainerConfigKeepsLoadedValue ==
    Docker.ContainerConfig = DockerConfigOf(BaseEnv)

\* C15, amended: when the configuration is loaded Docker.ContainerConfig
\* has the value of the loaded Docker.Config, and Docker.Config is made to
\* point at it; after any sequence of setters the two are the same value,
\* and the fields the setters of both formats wrote last hold in
\* Docker.ContainerConfig what they hold in the OCI configuration.
C15_SettersChangeContainerConfig ==
    /\ calls = 0 => Docker.ContainerConfig = DockerConfigOf(BaseEnv)
    /\ DockerConfig = Docker.ContainerConfig
    /\ Docker.ContainerConfig.User = OCIv1.Config.User
    /\ Docker.ContainerConfig.WorkingDir = OCIv1.Config.WorkingDir
    /\ Docker.ContainerConfig.Cmd = OCIv1.Config.Cmd
    /\ Docker.ContainerConfig.Entrypoint = OCIv1.Config.Entrypoint
    /\ Docker.ContainerConfig.StopSignal = OCIv1.Config.StopSignal
    /\ Docker.ContainerConfig.Labels.kv = OCIv1.Config.Labels.kv

\* SetUser and SetHostname were called after the load
C15_Witness ==
    /\ calls > 1
    /\ Docker.ContainerConfig.User # DockerConfigOf(BaseEnv).User
    /\ Docker.ContainerConfig.Hostname # DockerConfigOf(BaseEnv).Hostname

\* C16: SetEnv(k, v) takes every entry with the key k out of both Env
\* lists, keeps the other entries in their order and appends to each list
\* the one entry k=v', v' being v expanded once against the list as it was
\* before the call, however many entries the list held.
C16_SetEnvExpandsOnce ==
    [][\A k \in EnvKeys, v \in EnvValues :
          SetEnv(k, v) =>
              /\ OCIv1'.Config.Env =
                    Append(WithoutKey(OCIv1.Config.Env, k),
                           k \o <<"=">> \o Expand(v, OCIv1.Config.Env))
              /\ Docker'.ContainerConfig.Env =
                    Append(WithoutKey(Docker.ContainerConfig.Env, k),
                           k \o <<"=">> \o Expand(v, Docker.ContainerConfig.Env))]_vars

\* strings.HasSuffix
EndsWith(s, t) == Len(t) <= Len(s) /\ SubSeq(s, Len(s) - Len(t) + 1, Len(s)) = t

\* the text that says which base image was used
FromText == <<"F", "R", "O", "M", " ">> \o in.fromImageName

\* whether the first entry this commit appended to a history carries it
Attributed(history) == EndsWith(history[BaseHistoryLen + 1].Comment, FromText)

\* the comment the j-th entry of the history was appended with
OwnComment(j) == IF j = CommitEntry THEN in.historyComment ELSE <<>>

\* C17 as stated: with history not omitted, the text FROM name is appended
\* exactly when the parent string contains the id of the base image, the
\* name of the base image is not empty and the id is not a prefix of the
\* name; in every other case no comment of the history is changed.
C17_FromUnlessIDIsPrefixOfName ==
    (Committed /\ ~ref.omitHistory) =>
        LET applies == /\ Contains(ref.parent, in.fromImageID)
                       /\ in.fromImageName # <<>>
                       /\ ~HasPrefix(in.fromImageName, in.fromImageID)
        IN  /\ Attributed(oimage.History) <=> applies
            /\ Attributed(dimage.History) <=> applies
            /\ ~applies =>
                  \A j \in (BaseHistoryLen + 1)..Len(oimage.History) :
                      /\ oimage.History[j].Comment = OwnComment(j)
                      /\ dimage.History[j].Comment = OwnComment(j)

\* C17, amended: with history not omitted, the text FROM name is appended
\* exactly when the parent string contains the id of the base image, the
\* name of the base image is not empty and the name is not a prefix of the
\* id; in every other case no comment of the history is changed.
C17_FromUnlessNameIsPrefixOfID ==
    (Committed /\ ~ref.omitHistory) =>
        LET applies == /\ Contains(ref.parent, in.fromImageID)
                       /\ in.fromImageName # <<>>
                       /\ ~HasPrefix(in.fromImageID, in.fromImageName)
        IN  /\ Attributed(oimage.History) <=> applies
            /\ Attributed(dimage.History) <=> applies
            /\ ~applies =>
                  \A j \in (BaseHistoryLen + 1)..Len(oimage.History) :
                      /\ oimage.History[j].Comment = OwnComment(j)
                      /\ dimage.History[j].Comment = OwnComment(j)

\* a commit on a base image whose name starts with its id says which base
\* image was used
C17_Witness ==
    /\ pc = "done" /\ ~ref.omitHistory
    /\ HasPrefix(in.fromImageName, in.fromImageID)
    /\ Attributed(oimage.History)

\* C18: when the text FROM name is appended, it is appended, after a space
\* when the comment was not empty and with none when it was, to the comment
\* of the first entry this commit appended to the history (the entry of a
\* prepended empty layer if there is one, else of a prepended linked layer,
\* else the entry of the commit), the same in both formats; every other
\* entry of the history, inherited or new, is as it was appended.
C18_FromGoesToFirstNewEntry ==
    (/\ Committed /\ ~ref.omitHistory
     /\ Contains(ref.parent, in.fromImageID)
     /\ in.fromImageName # <<>>
     /\ ~HasPrefix(in.fromImageID, in.fromImageName)) =>
        LET first == BaseHistoryLen + 1
            text == (IF OwnComment(first) # <<>> THEN <<" ">> ELSE <<>>) \o FromText
            firstCreatedBy == IF Len(ref.preEmptyLayers) > 0 THEN "pre-empty"
                              ELSE IF Len(ref.preLayers) > 0 THEN "linked"
                              ELSE ref.createdBy
        IN  /\ Len(oimage.History) = Len(dimage.History)
            /\ oimage.History[first].Comment = OwnComment(first) \o text
            /\ dimage.History[first].Comment = OwnComment(first) \o text
            /\ oimage.History[first].CreatedBy = firstCreatedBy
            /\ dimage.History[first].CreatedBy = firstCreatedBy
            /\ \A j \in (first + 1)..Len(oimage.History) :
                  /\ oimage.History[j].Comment = OwnComment(j)
                  /\ dimage.History[j].Comment = OwnComment(j)
            /\ SubSeq(oimage.History, 1, BaseHistoryLen) =
                  SubSeq(Unmarshal(ref.oconfig).History, 1, BaseHistoryLen)
            /\ SubSeq(dimage.History, 1, BaseHistoryLen) =
                  SubSeq(Unmarshal(ref.dconfig).History, 1, BaseHistoryLen)

\* the text was appended, after a space, to the comment of the entry of the
\* commit, which follows an inherited entry
C18_Witness ==
    /\ pc = "done" /\ ~ref.omitHistory /\ BaseHistoryLen > 0
    /\ CommitEntry = BaseHistoryLen + 1
    /\ in.historyComment # <<>>
    /\ oimage.History[CommitEntry].Comment = in.historyComment \o <<" ">> \o FromText
    /\ in.fromImageName # <<>>

\* what made each entry of a history, in order
CreatedByOf(history) == [j \in 1..Len(history) |-> history[j].CreatedBy]

\* n times the same
Repeat(x, n) == [j \in 1..n |-> x]

\* C19: with history not omitted, the entries a commit appends are, in both
\* formats and in this order: those of the prepended empty layers, those of
\* the prepended linked layers, the one entry of the commit, the ADD entry
\* of the synthesized layer exactly when that layer was made, those of the
\* appended empty layers, those of the appended linked layers; they follow
\* the inherited entries, which are unchanged and in their order.
C19_HistoryOrder ==
    (Committed /\ ~ref.omitHistory) =>
        LET new == Repeat("pre-empty", in.preEmpty)
                     \o Repeat("linked", Len(ref.preLayers))
                     \o <<ref.createdBy>>
                     \o (IF SynthesizedPlaces # {} THEN <<"ADD dir">> ELSE <<>>)
                     \o Repeat("post-empty", in.postEmpty)
                     \o Repeat("linked", Len(ref.postLayers))
            obase == SubSeq(Unmarshal(ref.oconfig).History, 1, BaseHistoryLen)
            dbase == SubSeq(Unmarshal(ref.dconfig).History, 1, BaseHistoryLen)
        IN  /\ SubSeq(oimage.History, 1, BaseHistoryLen) = obase
            /\ SubSeq(dimage.History, 1, BaseHistoryLen) = dbase
            /\ CreatedByOf(oimage.History) = CreatedByOf(obase) \o new
            /\ CreatedByOf(dimage.History) = CreatedByOf(dbase) \o new
            /\ \A j \in 1..Len(oimage.History) :
                  (oimage.History[j].CreatedBy \in {"pre-empty", "post-empty"})
                      => oimage.History[j].EmptyLayer

\* a commit appended entries of all six kinds to an inherited history
C19_Witness ==
    /\ pc = "done" /\ ~ref.omitHistory /\ BaseHistoryLen > 0
    /\ in.preEmpty > 0 /\ in.postEmpty > 0
    /\ Len(ref.preLayers) > 0 /\ Len(ref.postLayers) > 0
    /\ SynthesizedPlaces # {}
    /\ Len(oimage.History) = BaseHistoryLen + 6

\* C20: when the parent image has a diff ID and no history entry and
\* OmitHistory is not asked for, the commit omits the history as if it had
\* been: the configurations of both formats, and the one the source hands
\* out, have an empty history, and the commit does not fail with the
\* error of the check of the history against the diff IDs.
C20_NoHistoryParentOmitsHistory ==
    (/\ in.fromImageID # <<>>
     /\ Len(in.parents) > 0
     /\ BaseHistory(in.baseHistory, Len(in.parents)) = <<>>
     /\ ~in.omitHistory) =>
        /\ pc \in {"ref", "loop", "mounted", "done", "closed"} => ref.omitHistory
        /\ pc \in {"loop", "mounted", "done", "closed"} =>
              /\ oimage.History = <<>>
              /\ dimage.History = <<>>
        /\ Committed => Unmarshal(src.config).History = <<>>
        /\ pc = "failed" =>
              err # "internal error: history lists a number of non-empty layers, but we have another number of layers on disk"

\* a commit, with a linked layer, on a parent image that has two layers and
\* no history returned a source
C20_Witness ==
    /\ pc = "done" /\ ~in.omitHistory /\ in.fromImageID # <<>>
    /\ Len(in.parents) > 1
    /\ BaseHistory(in.baseHistory, Len(in.parents)) = <<>>
    /\ apiLayerIDs # {}
    /\ Len(oimage.DiffIDs) > 2

-----------------------------------------------------------------------------
(* C21 .. C30.                                                             *)

\* C25: with history not omitted, a commit appends to the history of both
\* formats one entry for each prepended empty layer, one for each linked
\* layer the caller prepended, one of its own, one for the synthesized
\* layer when that layer was made, one for each appended empty layer and
\* one for each linked layer the caller appended, the linked layers with
\* EmptyLayer set and no content included.
C25_OneEntryPerLinkedLayer ==
    (Committed /\ ~ref.omitHistory) =>
        LET appended == in.preEmpty + Len(in.bPre \o in.optPre) + 1
                          + (IF SynthesizedPlaces # {} THEN 1 ELSE 0)
                          + in.postEmpty + Len(in.optPost \o in.bPost)
        IN  /\ Len(oimage.History) = BaseHistoryLen + appended
            /\ Len(dimage.History) = BaseHistoryLen + appended

\* the layers of the list the loop has dealt with
DoneLayers ==
    IF pc \in {"loop", "mounted"} THEN 1..(idx - 1)
    ELSE IF Committed THEN 1..Len(layers)
    ELSE {}

\* the diff ID of the k-th layer of the list, when storage holds the layer
\* or the caller supplied it
DiffIDOfLayer(k) ==
    IF k \in ReusedLayers THEN StoreLayer(layers[k]).UncompressedDigest
    ELSE IF layers[k] \in apiLayerIDs
    THEN DigestOf(TarFilter(
             ApiLayers[CHOOSE n \in 1..Len(ApiLayers) :
                          ApiLayers[n].layerID = layers[k]].blob))
    ELSE DigestOf(TarFilter(StoreDiff(layers[k])))

\* C26: after every turn of the loop over the layers, and in what a source
\* is made of, the layers of the OCI manifest, the layers of the Docker
\* manifest and the diff IDs of both formats are as many as the layers
\* dealt with that were not skipped; they are in the order of the list of
\* layers, the k-th of each standing for the same layer, and the two
\* manifests have the same digest and size at every place.
C26_ManifestsAndDiffIDsInStep ==
    pc \in {"loop", "mounted", "done", "closed"} =>
        LET n == Cardinality(DoneLayers \ SkippedLayers)
        IN  /\ Len(omanifest.Layers) = n
            /\ Len(dmanifest.Layers) = n
            /\ Len(oimage.DiffIDs) = n
            /\ Len(dimage.DiffIDs) = n
            /\ oimage.DiffIDs = dimage.DiffIDs
            /\ \A k \in 1..n :
                  /\ omanifest.Layers[k].Digest = dmanifest.Layers[k].Digest
                  /\ omanifest.Layers[k].Size = dmanifest.Layers[k].Size
            /\ \A k \in DoneLayers \ SkippedLayers :
                  (~in.squash /\ ~in.convert /\ layers[k] # SynthesizedLayerID) =>
                      /\ oimage.DiffIDs[DescriptorOf(k)] = DiffIDOfLayer(k)
                      /\ (k \in ReusedLayers \/ in.compression = "Uncompressed") =>
                            omanifest.Layers[DescriptorOf(k)].Digest = DiffIDOfLayer(k)

\* the loop has listed a parent layer as storage has it, skipped the top
\* layer and written the layer after it to a file
C26_Witness ==
    /\ pc \in {"loop", "mounted"}
    /\ ReusedLayers # {}
    /\ \E j \in SkippedLayers : j + 1 \in DoneLayers

\* the layers of the list that were written to a file
StreamedLayers == (1..Len(layers)) \ (ReusedLayers \cup SkippedLayers)

\* C27: after a commit returned a source the blob directory holds one file
\* for each digest that a layer written to a file has in the manifest,
\* named by that digest, and no file named layer; the layers listed as
\* storage has them and a skipped top layer add no file, and one file was
\* created for each layer that was written.
C27_StagedFilesAreTheStreamedLayers ==
    /\ pc = "done" =>
          /\ {f.name : f \in staging.files} =
                {omanifest.Layers[DescriptorOf(k)].Digest : k \in StreamedLayers}
          /\ \A f, g \in staging.files : f.name = g.name => f = g
          /\ \A f \in staging.files : DigestOf(f.content) = f.name
          /\ ~staging.tmp
          /\ io.creates = Cardinality(StreamedLayers)
    /\ pc \in {"loop", "mounted"} => ~staging.tmp

\* a commit wrote two layers that have the same digest to the blob
\* directory, which holds one file for them
C27_Witness ==
    /\ pc = "done"
    /\ Cardinality(StreamedLayers) > Cardinality(staging.files)
    /\ staging.files # {}


\* NewImageSource has returned from the turn that extracts the rootfs
StreamReturned == rootfs.cons = "returned"

\* C21: when the container cannot be unmounted as the stream of the rootfs
\* is closed and nothing failed before, Commit returns an error and no
\* source.
C21_UnmountFailureIsReturned ==
    (StreamReturned /\ rootfs.unmountErr /\ rootfs.copyErr = "" /\ rootfs.chanVal = "")
        => rootfs.result = "error"

\* C22: when the copy of the rootfs into the file of the layer fails, Commit
\* returns an error and no source, whatever the goroutine sends.
C22_CopyErrorIsReturned ==
    (StreamReturned /\ rootfs.copyErr # "") => rootfs.result = "error"

\* C23: when the goroutine has finished, the write end of the pipe is
\* closed.
C23_WriteEndClosedAtExit ==
    rootfs.prod = "exited" => rootfs.wclosed

\* C24: when Commit returns after the goroutine was started, the consumer
\* has closed the read end and has received from the channel exactly once.
C24_ClosedAndReceivedOnce ==
    (StreamReturned /\ rootfs.prod # "none") => (rootfs.rclosed /\ rootfs.recvs = 1)

\* C28: under fair scheduling the turn that extracts the rootfs always
\* returns, with a source or with an error.
C28_CommitReturns == <>StreamReturned

\* the goroutine has been started and has not returned
Extracting == rootfs.prod \notin {"none", "exited"}

\* C29: the goroutine sends one value on the channel and then closes it:
\* it never sends twice, the channel is never over its capacity nor closed
\* before the send, a goroutine about to send finds room in the channel,
\* and a goroutine that was started comes to its end having sent once,
\* whether or not the consumer receives.
C29_OneSendThenClose ==
    /\ [](/\ rootfs.sends <= 1
          /\ rootfs.chanLen <= ErrChanCapacity
          /\ rootfs.chanClosed => rootfs.sends = 1
          /\ rootfs.prod = "send" => rootfs.chanLen < ErrChanCapacity
          /\ rootfs.prod = "exited" => (rootfs.sends = 1 /\ rootfs.chanClosed))
    /\ (Extracting ~> (rootfs.prod = "exited" /\ rootfs.sends = 1))

\* the goroutine has sent and closed the channel, and Commit has returned
\* without receiving
C29_Witness ==
    /\ rootfs.prod = "exited" /\ rootfs.sends = 1 /\ rootfs.chanClosed
    /\ StreamReturned /\ rootfs.recvs = 0 /\ rootfs.chanLen = 1

\* copier.Get has written to the pipe and has not returned
InsideGet == rootfs.prod = "write" \/ (rootfs.prod = "get" /\ rootfs.chunks > 0)

\* C30: the container is mounted for as long as copier.Get is reading its
\* rootfs.
C30_MountedWhileGetReads == InsideGet => rootfs.mounted

=============================================================================
